---- MODULE Spec2Model ----
(***************************************************************************)
(* The request-authorization and submission-processing behaviour of the    *)
(* appnity backend: the REST views of the apps products, portfolio,        *)
(* training, careers, testimonials, blogs, contacts and newsletter, their  *)
(* permission classes, their serializers and the tables they write.        *)
(*                                                                         *)
(* One step of the model is one HTTP request handled to completion.  The   *)
(* apps share no table, so a behaviour exercises the URLconf of one app,   *)
(* drawn by Init; `request` and `response` hold the last request and the   *)
(* answer it was given.  RaceSpec, at the end of the handlers, runs two     *)
(* requests at once, each handler split at its reads and writes of the     *)
(* tables; `inflight` holds the position of each of the two.               *)
(***************************************************************************)
EXTENDS Integers, Sequences, FiniteSets, TLC

\* Primary keys the instructors and testimonials tables hand out before the
\* model stops accepting inserts into them.
MaxPk == 1

\* Primary keys a submission table (contacts, subscriptions, applications,
\* testimonial submissions) hands out before the model stops accepting
\* submissions.
MaxSubmissions == 2

\* Successful GETs of one blog post that are counted before the model stops
\* serving further ones.
MaxViews == 1

\* The rows a content table holds in the behaviours that exercise the slugs.
MaxEntities == 2

\* Refresh tokens issued by registration and login before the model stops
\* issuing further ones.
MaxTokens == 2

\* Public testimonials the admin actions create before the model stops
\* creating further ones.
MaxTestimonials == 3

\* Comments stored before the model stops accepting further ones.
MaxComments == 3

\* Mails of one kind sent about one row before the model stops sending more.
MaxMail == 2

-----------------------------------------------------------------------------
(* Partial functions: a table maps the keys of its rows to the rows.       *)

Put(t, k, r) == [x \in (DOMAIN t) \cup {k} |-> IF x = k THEN r ELSE t[x]]

Remove(t, k) == [x \in (DOMAIN t) \ {k} |-> t[x]]

Override(r, d) == [f \in DOMAIN r |-> IF f \in DOMAIN d THEN d[f] ELSE r[f]]

Rows(t) == {t[k] : k \in DOMAIN t}

EmptyTable == <<>>

-----------------------------------------------------------------------------
(* users/models.py: the accounts and the role predicates.                  *)

AnonymousUser == "AnonymousUser"

Users == {"ann", "ed", "uma", "sue"}

role(u) ==
    CASE u = "ann" -> "admin"
      [] u = "ed"  -> "editor"
      [] OTHER     -> "user"

is_superuser(u) == u = "sue"

is_authenticated(u) == u \in Users

is_editor(u) == role(u) \in {"admin", "editor"} \/ is_superuser(u)

Callers == Users \cup {AnonymousUser}

-----------------------------------------------------------------------------
(* Text values are sequences of characters.                                *)

Rep(c, n) == [i \in 1..n |-> c]

RECURSIVE lstrip(_)
lstrip(s) == IF s # <<>> /\ Head(s) = " " THEN lstrip(Tail(s)) ELSE s

RECURSIVE rstrip(_)
rstrip(s) ==
    IF s # <<>> /\ s[Len(s)] = " " THEN rstrip(SubSeq(s, 1, Len(s) - 1)) ELSE s

strip(s) == rstrip(lstrip(s))

\* The characters of the texts that slugs are derived from.
chars(text) ==
    CASE text = "Hello World!!" ->
            <<"H", "e", "l", "l", "o", " ", "W", "o", "r", "l", "d", "!", "!">>
      [] text = "Hello World" ->
            <<"H", "e", "l", "l", "o", " ", "W", "o", "r", "l", "d">>
      [] text = "Another Test Project" ->
            <<"A", "n", "o", "t", "h", "e", "r", " ", "T", "e", "s", "t", " ", "P", "r", "o", "j", "e", "c", "t">>
      [] text = "!!!" ->
            <<"!", "!", "!">>
      [] text = "Hello--World  2" ->
            <<"H", "e", "l", "l", "o", "-", "-", "W", "o", "r", "l", "d", " ", " ", "2">>
      [] text = "snake_case" ->
            <<"s", "n", "a", "k", "e", "_", "c", "a", "s", "e">>
      [] text = "Engineering" ->
            <<"E", "n", "g", "i", "n", "e", "e", "r", "i", "n", "g">>

Upper ==
    <<"A", "B", "C", "D", "E", "F", "G", "H", "I", "J", "K", "L", "M",
      "N", "O", "P", "Q", "R", "S", "T", "U", "V", "W", "X", "Y", "Z">>

Lower ==
    <<"a", "b", "c", "d", "e", "f", "g", "h", "i", "j", "k", "l", "m",
      "n", "o", "p", "q", "r", "s", "t", "u", "v", "w", "x", "y", "z">>

Digits == {"0", "1", "2", "3", "4", "5", "6", "7", "8", "9"}

\* str.lower on one character.
lower(c) ==
    IF \E i \in DOMAIN Upper : Upper[i] = c
    THEN Lower[CHOOSE i \in DOMAIN Upper : Upper[i] = c]
    ELSE c

\* [\w\s-]: what re.sub(r'[^\w\s-]', '', value) keeps.
word_space_hyphen(c) ==
    \/ \E i \in DOMAIN Lower : Lower[i] = c
    \/ c \in Digits \cup {"_", " ", "-"}

\* re.sub(r'[-\s]+', '-', value): a run of hyphens and spaces becomes one hyphen.
RECURSIVE collapse(_)
collapse(s) ==
    IF s = <<>> THEN <<>>
    ELSE IF Head(s) \in {"-", " "}
    THEN IF Tail(s) # <<>> /\ Head(Tail(s)) \in {"-", " "}
         THEN collapse(Tail(s))
         ELSE <<"-">> \o collapse(Tail(s))
    ELSE <<Head(s)>> \o collapse(Tail(s))

\* str.strip('-_')
RECURSIVE strip_hyphens(_)
strip_hyphens(s) ==
    IF s # <<>> /\ Head(s) \in {"-", "_"} THEN strip_hyphens(Tail(s))
    ELSE IF s # <<>> /\ s[Len(s)] \in {"-", "_"}
    THEN strip_hyphens(SubSeq(s, 1, Len(s) - 1))
    ELSE s

\* The text that a sequence of characters spells.
RECURSIVE join(_)
join(s) == IF s = <<>> THEN "" ELSE Head(s) \o join(Tail(s))

\* django.utils.text.slugify on a sequence of characters.
slugify_chars(s) ==
    LET lowered == [i \in DOMAIN s |-> lower(s[i])]
        kept == SelectSeq(lowered, word_space_hyphen)
    IN  join(strip_hyphens(collapse(kept)))

\* A faulty derivation: the title itself.
verbatim(title) == title

\* django.utils.text.slugify on the titles the requests carry.
slugify(title) == slugify_chars(chars(title))

Titles == {"Hello World!!"}

Slugs == {slugify(t) : t \in Titles}


\* careers/models.py: a job position's slug is derived from title and department.
Department == "Engineering"

JobPosition_slug(title) ==
    slugify_chars(chars(title) \o <<"-">> \o chars(Department))

-----------------------------------------------------------------------------
(* The models: table, title field, status choices and defaults.            *)

Product ==
    [db_table |-> "products", title_field |-> "name", status_field |-> "status",
     choices |-> {"live", "beta", "development", "coming_soon", "archived"},
     default |-> "development"]

PortfolioProject ==
    [db_table |-> "portfolio_projects", title_field |-> "title",
     status_field |-> "status",
     choices |-> {"completed", "in_progress", "maintenance", "archived"},
     default |-> "completed"]

Course ==
    [db_table |-> "training_courses", title_field |-> "title",
     status_field |-> "status",
     choices |-> {"active", "coming_soon", "archived"},
     default |-> "active"]

Instructor ==
    [db_table |-> "instructors", title_field |-> "name", status_field |-> "none",
     choices |-> {}, default |-> "none"]

JobPosition ==
    [db_table |-> "job_positions", title_field |-> "title",
     status_field |-> "status",
     choices |-> {"open", "closed", "paused", "filled"},
     default |-> "open"]

Testimonial ==
    [db_table |-> "testimonials", title_field |-> "name",
     status_field |-> "is_approved",
     choices |-> {TRUE, FALSE}, default |-> TRUE]

BlogPost ==
    [db_table |-> "blog_posts", title_field |-> "title", status_field |-> "status",
     choices |-> {"draft", "published", "archived"},
     default |-> "draft"]

\* Tables whose rows are looked up by primary key; the others by slug.
PkTables ==
    {"instructors", "testimonials", "testimonial_submissions", "contacts",
     "newsletter_subscriptions", "job_applications"}

SlugTables ==
    {"products", "portfolio_projects", "training_courses", "job_positions",
     "blog_posts"}

Tables == PkTables \cup SlugTables

-----------------------------------------------------------------------------
(* State.                                                                  *)

VARIABLES
    app,            \* the app whose URLconf the behaviour exercises
    db,             \* table name -> (key -> row)
    last_pk,        \* table name -> last primary key the table handed out
    mail_attempts,  \* <<table, pk, template>> -> send_mail calls made for the row
    request,        \* the last request
    mail,           \* what each send_mail call of the last request did, in order
    response,       \* the answer to the last request
    inflight        \* worker -> the request it is handling and where it is

vars == <<app, db, last_pk, mail_attempts, request, mail, response, inflight>>

\* The request threads that run at once, and a thread with no request.
Workers == {1, 2}

Idle ==
    [pc |-> "idle", kind |-> "none", user |-> "AnonymousUser", path |-> <<>>,
     data |-> <<>>, seen |-> 0, response |-> [status |-> 0, body |-> <<>>]]


-----------------------------------------------------------------------------
(* URL dispatch: the first pattern of the app's urlpatterns that matches   *)
(* the path wins.  A path is the sequence of its segments below the app's  *)
(* prefix; a route segment is a literal or a path converter.               *)

IntSegments == {ToString(i) : i \in 1..MaxPk}

to_int(seg) == CHOOSE i \in 1..MaxPk : ToString(i) = seg

IsConverter(seg) ==
    seg \in {"<slug:slug>", "<slug:position_slug>", "<slug:post_slug>",
             "<int:pk>", "<str:category>", "<str:testimonial_type>"}

\* <int:...> takes digits only; <slug:...> and <str:...> take every segment the
\* requests of the model carry (letters, digits, hyphens and underscores) but
\* the empty one.
SegmentMatches(pattern, seg) ==
    IF pattern = "<int:pk>" THEN seg \in IntSegments
    ELSE IF IsConverter(pattern) THEN seg # ""
    ELSE pattern = seg

RouteMatches(route, path) ==
    /\ Len(route) = Len(path)
    /\ \A i \in 1..Len(route) : SegmentMatches(route[i], path[i])

Pattern(route, view) == [route |-> route, view |-> view]

products_urlpatterns ==
    << Pattern(<<>>, "ProductListView"),
       Pattern(<<"featured">>, "featured_products_view"),
       Pattern(<<"<slug:slug>">>, "ProductDetailView") >>

portfolio_urlpatterns ==
    << Pattern(<<>>, "PortfolioProjectListView"),
       Pattern(<<"featured">>, "featured_projects_view"),
       Pattern(<<"category", "<str:category>">>, "projects_by_category_view"),
       Pattern(<<"search">>, "search_projects_view"),
       Pattern(<<"technologies">>, "project_technologies_view"),
       Pattern(<<"stats">>, "portfolio_stats_view"),
       Pattern(<<"<slug:slug>">>, "PortfolioProjectDetailView") >>

training_urlpatterns ==
    << Pattern(<<"courses">>, "CourseListView"),
       Pattern(<<"courses", "featured">>, "featured_courses_view"),
       Pattern(<<"courses", "stats">>, "course_stats_view"),
       Pattern(<<"courses", "<slug:slug>">>, "CourseDetailView"),
       Pattern(<<"instructors">>, "InstructorListView") >>

careers_urlpatterns ==
    << Pattern(<<"positions">>, "JobPositionListView"),
       Pattern(<<"positions", "open">>, "open_positions_view"),
       Pattern(<<"positions", "<slug:slug>">>, "JobPositionDetailView"),
       Pattern(<<"positions", "<slug:position_slug>", "apply">>,
               "JobApplicationCreateView"),
       Pattern(<<"applications">>, "JobApplicationListView"),
       Pattern(<<"applications", "<int:pk>">>, "JobApplicationDetailView"),
       Pattern(<<"stats">>, "career_stats_view") >>

testimonials_urlpatterns ==
    << Pattern(<<>>, "TestimonialListView"),
       Pattern(<<"<int:pk>">>, "TestimonialDetailView"),
       Pattern(<<"featured">>, "featured_testimonials_view"),
       Pattern(<<"type", "<str:testimonial_type>">>, "testimonials_by_type_view"),
       Pattern(<<"submit">>, "TestimonialSubmissionCreateView"),
       Pattern(<<"stats">>, "testimonial_stats_view") >>

blogs_urlpatterns ==
    << Pattern(<<>>, "BlogPostListView"),
       Pattern(<<"<slug:slug>">>, "BlogPostDetailView"),
       Pattern(<<"categories">>, "CategoryListView"),
       Pattern(<<"tags">>, "TagListView"),
       Pattern(<<"<slug:post_slug>", "comments">>, "CommentListCreateView"),
       Pattern(<<"featured">>, "featured_posts_view"),
       Pattern(<<"recent">>, "recent_posts_view") >>

contacts_urlpatterns ==
    << Pattern(<<>>, "ContactCreateView"),
       Pattern(<<"list">>, "ContactListView"),
       Pattern(<<"<int:pk>">>, "ContactDetailView"),
       Pattern(<<"stats">>, "contact_stats_view") >>

newsletter_urlpatterns ==
    << Pattern(<<"subscribe">>, "NewsletterSubscribeView"),
       Pattern(<<"unsubscribe">>, "newsletter_unsubscribe_view"),
       Pattern(<<"list">>, "NewsletterListView"),
       Pattern(<<"stats">>, "newsletter_stats_view") >>

Apps ==
    {"products", "portfolio", "training", "careers", "testimonials", "blogs",
     "contacts", "newsletter"}

urlpatterns(a) ==
    CASE a = "products"     -> products_urlpatterns
      [] a = "portfolio"    -> portfolio_urlpatterns
      [] a = "training"     -> training_urlpatterns
      [] a = "careers"      -> careers_urlpatterns
      [] a = "testimonials" -> testimonials_urlpatterns
      [] a = "blogs"        -> blogs_urlpatterns
      [] a = "contacts"     -> contacts_urlpatterns
      [] a = "newsletter"   -> newsletter_urlpatterns

\* The view a path resolves to and the value its converter captured.
resolve(patterns, path) ==
    LET hits == {i \in DOMAIN patterns : RouteMatches(patterns[i].route, path)}
    IN  IF hits = {} THEN [view |-> "Http404", kwarg |-> ""]
        ELSE LET i == CHOOSE j \in hits : \A k \in hits : j <= k
                 route == patterns[i].route
                 at == {n \in DOMAIN route : IsConverter(route[n])}
             IN  [view |-> patterns[i].view,
                  kwarg |-> IF at = {} THEN "" ELSE path[CHOOSE n \in at : TRUE]]


-----------------------------------------------------------------------------
(* Permission classes.                                                     *)

SAFE_METHODS == {"GET", "HEAD", "OPTIONS"}

\* A faulty object permission: every caller may write every object.
AnyObjectPermission(method, user, obj) == TRUE

\* blogs/permissions.py
IsAuthorOrAdminOrReadOnly_has_permission(method, user) ==
    IF method \in SAFE_METHODS THEN TRUE ELSE is_authenticated(user)

IsAuthorOrAdminOrReadOnly_has_object_permission(method, user, obj) ==
    IF method \in SAFE_METHODS THEN TRUE
    ELSE obj.author = user \/ is_editor(user) \/ is_superuser(user)

has_permission(class, method, user) ==
    CASE class = "AllowAny" -> TRUE
      [] class = "IsAuthenticated" -> is_authenticated(user)
      [] class = "IsAuthenticatedOrReadOnly" ->
            method \in SAFE_METHODS \/ is_authenticated(user)
      [] class = "IsAuthorOrAdminOrReadOnly" ->
            IsAuthorOrAdminOrReadOnly_has_permission(method, user)

has_object_permission(class, method, user, obj) ==
    CASE class = "IsAuthorOrAdminOrReadOnly" ->
            IsAuthorOrAdminOrReadOnly_has_object_permission(method, user, obj)
      [] OTHER -> TRUE

\* The status of a request refused before its handler runs: a caller without
\* credentials is told to authenticate, any other caller that it is forbidden.
HTTP_401_UNAUTHORIZED == 401

HTTP_403_FORBIDDEN == 403

permission_denied(user) ==
    IF is_authenticated(user)
    THEN [status |-> HTTP_403_FORBIDDEN,
          body |-> [detail |-> "You do not have permission to perform this action."]]
    ELSE [status |-> HTTP_401_UNAUTHORIZED,
          body |-> [detail |-> "Authentication credentials were not provided."]]

-----------------------------------------------------------------------------
(* The class-based views.  Of each: the generic view it extends, its       *)
(* model, the rows of its queryset, the methods get_permissions guards and *)
(* with which classes, and the methods whose handler first returns 403 to  *)
(* a caller that is not is_editor.                                         *)

ViewOf(name, generic, model, queryset, guarded, classes, editor_only) ==
    [name |-> name, generic |-> generic, model |-> model, queryset |-> queryset,
     guarded |-> guarded, permission_classes |-> classes,
     editor_only |-> editor_only]

ProductListView ==
    ViewOf("ProductListView", "ListCreateAPIView", Product, "all",
           {"POST"}, {"IsAuthenticated"}, {"POST"})

ProductDetailView ==
    ViewOf("ProductDetailView", "RetrieveUpdateDestroyAPIView", Product, "all",
           {"PUT", "PATCH", "DELETE"}, {"IsAuthenticated"}, {"PATCH", "DELETE"})

PortfolioProjectListView ==
    ViewOf("PortfolioProjectListView", "ListCreateAPIView", PortfolioProject,
           "all", {"POST"}, {"IsAuthenticated"}, {"POST"})

PortfolioProjectDetailView ==
    ViewOf("PortfolioProjectDetailView", "RetrieveUpdateDestroyAPIView",
           PortfolioProject, "all",
           {"PUT", "PATCH", "DELETE"}, {"IsAuthenticated"}, {"PATCH", "DELETE"})

CourseListView ==
    ViewOf("CourseListView", "ListCreateAPIView", Course, "all",
           {"POST"}, {"IsAuthenticated"}, {"POST"})

CourseDetailView ==
    ViewOf("CourseDetailView", "RetrieveUpdateDestroyAPIView", Course, "all",
           {"PUT", "PATCH", "DELETE"}, {"IsAuthenticated"}, {"PATCH", "DELETE"})

InstructorListView ==
    ViewOf("InstructorListView", "ListCreateAPIView", Instructor, "all",
           {"POST"}, {"IsAuthenticated"}, {"POST"})

JobPositionListView ==
    ViewOf("JobPositionListView", "ListCreateAPIView", JobPosition, "all",
           {"POST"}, {"IsAuthenticated"}, {"POST"})

JobPositionDetailView ==
    ViewOf("JobPositionDetailView", "RetrieveUpdateDestroyAPIView", JobPosition,
           "all", {"PUT", "PATCH", "DELETE"}, {"IsAuthenticated"}, {"PATCH"})

TestimonialListView ==
    ViewOf("TestimonialListView", "ListCreateAPIView", Testimonial, "is_approved",
           {"POST"}, {"IsAuthenticated"}, {"POST"})

TestimonialDetailView ==
    ViewOf("TestimonialDetailView", "RetrieveUpdateDestroyAPIView", Testimonial,
           "is_approved", {"PUT", "PATCH", "DELETE"}, {"IsAuthenticated"}, {})

BlogPostListView ==
    ViewOf("BlogPostListView", "ListCreateAPIView", BlogPost, "published",
           {"POST"}, {"IsAuthenticated", "IsAuthorOrAdminOrReadOnly"}, {})

BlogPostDetailView ==
    ViewOf("BlogPostDetailView", "RetrieveUpdateDestroyAPIView", BlogPost,
           "published_unless_editor", {"PUT", "PATCH", "DELETE"},
           {"IsAuthenticated", "IsAuthorOrAdminOrReadOnly"}, {})

\* The submission tables, for the admin list views.
ContactModel ==
    [db_table |-> "contacts", title_field |-> "name", status_field |-> "status",
     choices |-> {"new", "in_progress", "resolved", "closed"}, default |-> "new"]

NewsletterSubscription ==
    [db_table |-> "newsletter_subscriptions", title_field |-> "email",
     status_field |-> "is_active", choices |-> {TRUE, FALSE}, default |-> TRUE]

JobApplication ==
    [db_table |-> "job_applications", title_field |-> "first_name",
     status_field |-> "status",
     choices |-> {"submitted", "reviewing", "interview", "offer", "hired",
                  "rejected", "withdrawn"},
     default |-> "submitted"]

TestimonialSubmission ==
    [db_table |-> "testimonial_submissions", title_field |-> "name",
     status_field |-> "is_approved", choices |-> {TRUE, FALSE},
     default |-> FALSE]

ContactListView ==
    ViewOf("ContactListView", "ListAPIView", ContactModel, "none_unless_editor",
           {"GET"}, {"IsAuthenticated"}, {})

NewsletterListView ==
    ViewOf("NewsletterListView", "ListAPIView", NewsletterSubscription,
           "none_unless_editor", {"GET"}, {"IsAuthenticated"}, {})

JobApplicationListView ==
    ViewOf("JobApplicationListView", "ListAPIView", JobApplication,
           "none_unless_editor", {"GET"}, {"IsAuthenticated"}, {})

ContactDetailView ==
    ViewOf("ContactDetailView", "RetrieveUpdateAPIView", ContactModel,
           "none_unless_editor", {"GET", "PUT", "PATCH"}, {"IsAuthenticated"}, {})

JobApplicationDetailView ==
    ViewOf("JobApplicationDetailView", "RetrieveUpdateAPIView", JobApplication,
           "none_unless_editor", {"GET", "PUT", "PATCH"}, {"IsAuthenticated"}, {})

GenericViewNames ==
    {"ProductListView", "ProductDetailView", "PortfolioProjectListView",
     "PortfolioProjectDetailView", "CourseListView", "CourseDetailView",
     "InstructorListView", "JobPositionListView", "JobPositionDetailView",
     "TestimonialListView", "TestimonialDetailView", "BlogPostListView",
     "BlogPostDetailView", "ContactListView", "NewsletterListView",
     "JobApplicationListView", "ContactDetailView", "JobApplicationDetailView"}

View(name) ==
    CASE name = "ProductListView" -> ProductListView
      [] name = "ProductDetailView" -> ProductDetailView
      [] name = "PortfolioProjectListView" -> PortfolioProjectListView
      [] name = "PortfolioProjectDetailView" -> PortfolioProjectDetailView
      [] name = "CourseListView" -> CourseListView
      [] name = "CourseDetailView" -> CourseDetailView
      [] name = "InstructorListView" -> InstructorListView
      [] name = "JobPositionListView" -> JobPositionListView
      [] name = "JobPositionDetailView" -> JobPositionDetailView
      [] name = "TestimonialListView" -> TestimonialListView
      [] name = "TestimonialDetailView" -> TestimonialDetailView
      [] name = "BlogPostListView" -> BlogPostListView
      [] name = "BlogPostDetailView" -> BlogPostDetailView
      [] name = "ContactListView" -> ContactListView
      [] name = "NewsletterListView" -> NewsletterListView
      [] name = "JobApplicationListView" -> JobApplicationListView
      [] name = "ContactDetailView" -> ContactDetailView
      [] name = "JobApplicationDetailView" -> JobApplicationDetailView

\* A faulty get_permissions: no method is guarded.
AllowAnyPermissions(view, method) == {"AllowAny"}

get_permissions(view, method) ==
    IF method \in view.guarded THEN view.permission_classes ELSE {"AllowAny"}

check_permissions(view, method, user) ==
    \A class \in get_permissions(view, method) : has_permission(class, method, user)

check_object_permissions(view, method, user, obj) ==
    \A class \in get_permissions(view, method) :
        has_object_permission(class, method, user, obj)

\* A faulty get_queryset: the whole table, whoever asks.
all_rows(view, user) == db[view.model.db_table]

\* get_queryset: the rows of the view's table the caller may look up or list.
get_queryset(view, user) ==
    LET t == db[view.model.db_table]
        keep(row) ==
            CASE view.queryset = "all" -> TRUE
              [] view.queryset = "is_approved" -> row.is_approved
              [] view.queryset = "published" -> row.status = "published"
              [] view.queryset = "published_unless_editor" ->
                    \/ is_authenticated(user) /\ is_editor(user)
                    \/ row.status = "published"
              [] view.queryset = "none_unless_editor" -> is_editor(user)
    IN  [k \in {x \in DOMAIN t : keep(t[x])} |-> t[k]]

-----------------------------------------------------------------------------
(* Requests and responses.                                                 *)

\* The submission the admin detail requests address: the first one stored.
FirstPk == "1"

\* The paths of each app's URLconf that the requests of the model address.
Paths(a) ==
    CASE a = "products" -> {<<>>} \cup {<<g>> : g \in Slugs}
      [] a = "portfolio" -> {<<>>, <<"stats">>} \cup {<<g>> : g \in Slugs}
      [] a = "training" ->
            {<<"courses">>, <<"courses", "stats">>, <<"instructors">>}
            \cup {<<"courses", g>> : g \in Slugs}
      [] a = "careers" ->
            {<<"positions">>, <<"positions", "open">>, <<"applications">>,
             <<"applications", FirstPk>>, <<"stats">>}
            \cup {<<"positions", JobPosition_slug(t)>> : t \in Titles}
            \cup {<<"positions", JobPosition_slug(t), "apply">> : t \in Titles}
      [] a = "testimonials" ->
            {<<>>, <<"submit">>, <<"stats">>} \cup {<<g>> : g \in IntSegments}
      [] a = "blogs" -> {<<>>, <<"featured">>, <<"recent">>} \cup {<<g>> : g \in Slugs}
      [] a = "contacts" -> {<<>>, <<"list">>, <<FirstPk>>, <<"stats">>}
      [] a = "newsletter" ->
            {<<"subscribe">>, <<"unsubscribe">>, <<"list">>, <<"stats">>}

\* The apps of the published-content entities and the path of each one's list.
ContentApps == {"products", "portfolio", "training", "careers", "blogs"}

ListPath(a) ==
    CASE a = "training" -> <<"courses">>
      [] a = "careers" -> <<"positions">>
      [] OTHER -> <<>>

\* The titles of the requests that exercise the slugs, and the slugs they
\* derive in an app.
SlugTitles ==
    {"Hello World!!", "Hello World", "Another Test Project", "!!!",
     "Hello--World  2", "snake_case"}

SlugsOf(a) ==
    {IF a = "careers" THEN JobPosition_slug(t) ELSE slugify(t) : t \in SlugTitles}

\* The list of the app and the detail URL of each of those slugs.
SlugPaths(a) ==
    IF a \in ContentApps
    THEN {ListPath(a)} \cup {ListPath(a) \o <<g>> : g \in SlugsOf(a)}
    ELSE {}

\* The paths a method is sent to: the two fixed blog paths are only read.
Targets(a, method) ==
    IF method \in SAFE_METHODS THEN Paths(a)
    ELSE Paths(a) \ {<<"featured">>, <<"recent">>}

\* The resolver of each URLconf, built once: the match of every path the
\* requests address.
get_resolver ==
    [a \in Apps |-> [p \in Paths(a) \cup SlugPaths(a) |->
                        resolve(urlpatterns(a), p)]]

Request(user, method, path, data) ==
    [user |-> user, method |-> method, path |-> path,
     view |-> get_resolver[app][path].view, data |-> data]

Response(status, body) == [status |-> status, body |-> body]

NoData == <<>>

\* The fields of a model that the payloads of the model carry.
Fields(model) ==
    {model.title_field}
    \cup (IF model.status_field = "none" THEN {} ELSE {model.status_field})

\* The statuses the payloads carry: the model's default and one more choice.
Statuses(model) ==
    CASE model.db_table = "blog_posts" -> {model.default, "published"}
      [] model.db_table = "job_positions" -> {model.default, "closed"}
      [] model.db_table = "testimonials" -> {model.default, FALSE}
      [] model.db_table = "instructors" -> {}
      [] OTHER -> {model.default, "archived"}

FullPayloads(model) ==
    IF model.status_field = "none"
    THEN {[f \in Fields(model) |-> t] : t \in Titles}
    ELSE {[f \in Fields(model) |-> IF f = model.title_field THEN t ELSE s] :
            t \in Titles, s \in Statuses(model)}

PartialPayloads(model) ==
    {[f \in {model.status_field} |-> s] : s \in Statuses(model)}

\* POST and PUT carry a whole record, or one that lacks the title; PATCH
\* carries the status, or for a blog post the featured flag.
Payloads(model, method) ==
    IF method = "PATCH"
    THEN PartialPayloads(model)
         \cup (IF model.db_table = "blog_posts" THEN {[is_featured |-> TRUE]} ELSE {})
    ELSE FullPayloads(model)
         \cup (IF model.status_field = "none" THEN {NoData}
               ELSE {[f \in {model.status_field} |-> model.default]})

-----------------------------------------------------------------------------
(* Serializers and Model.save.                                             *)

\* ModelSerializer: a field whose model field has neither default nor blank is
\* required, unless the update is partial.
errors(model, data, partial) ==
    IF partial THEN NoData
    ELSE [f \in {model.title_field} \ DOMAIN data |-> "This field is required."]

\* Model(**validated_data): the fields the payload lacks take their defaults.
new_instance(model, data, user) ==
    LET base == [f \in Fields(model) |->
                    IF f \in DOMAIN data THEN data[f] ELSE model.default]
    IN  CASE model.db_table = "blog_posts" ->
                base @@ [slug |-> "", author |-> user,
                         is_featured |-> IF "is_featured" \in DOMAIN data
                                         THEN data.is_featured ELSE FALSE,
                         views_count |-> 0, published_at |-> "null"]
          [] model.db_table \in SlugTables \ {"blog_posts"} ->
                base @@ [slug |-> ""]
          [] model.db_table = "testimonials" ->
                base @@ [id |-> 0,
                         is_featured |-> IF "is_featured" \in DOMAIN data
                                         THEN data.is_featured ELSE FALSE,
                         testimonial_type |->
                            IF "testimonial_type" \in DOMAIN data
                            THEN data.testimonial_type ELSE "customer"]
          [] OTHER -> base @@ [id |-> 0]

\* A faulty save: the slug follows the title on every save.
rederive(model, instance) ==
    IF model.db_table \in SlugTables
    THEN [instance EXCEPT !.slug = slugify(instance[model.title_field])]
    ELSE instance

\* The save() overrides: the slug is derived once, from the title; a blog post
\* that is published takes its publication time if it has none.
save(model, instance) ==
    LET named ==
            IF model.db_table \in SlugTables /\ instance.slug = ""
            THEN [instance EXCEPT !.slug =
                    IF model.db_table = "job_positions"
                    THEN JobPosition_slug(instance[model.title_field])
                    ELSE slugify(instance[model.title_field])]
            ELSE instance
    IN  IF model.db_table = "blog_posts" /\ named.status = "published"
           /\ named.published_at = "null"
        THEN [named EXCEPT !.published_at = "set"]
        ELSE named

\* The key of a detail URL: the slug, or the primary key.
lookup(model, kwarg) ==
    IF model.db_table \in SlugTables THEN kwarg ELSE to_int(kwarg)

AdminAccessRequired ==
    Response(HTTP_403_FORBIDDEN, [error |-> "Admin access required"])

NotFound == Response(404, [detail |-> "Not found."])

IntegrityError == Response(500, [detail |-> "IntegrityError"])

-----------------------------------------------------------------------------
(* The generic views.  Each handler runs in the order of the framework:    *)
(* the permission classes of get_permissions, then the handler's own role  *)
(* check, then the object lookup and its object permissions, then the      *)
(* serializer, then the write.                                             *)

\* GET on a list view.
list(user, path) ==
    LET match == get_resolver[app][path]
        view == View(match.view)
    IN  /\ match.view \in GenericViewNames
        /\ view.generic \in {"ListCreateAPIView", "ListAPIView"}
        /\ request' = Request(user, "GET", path, NoData)
        /\ response' =
              IF ~check_permissions(view, "GET", user)
              THEN permission_denied(user)
              ELSE Response(200, [results |-> Rows(get_queryset(view, user))])
        /\ mail' = <<>>
        /\ UNCHANGED <<app, db, last_pk, mail_attempts>>

\* A faulty table: no unique constraint on the slug.
unconstrained(table, slug) == FALSE

\* slug = models.SlugField(unique=True): the insert of a taken slug fails.
violates_unique(table, slug) == slug \in DOMAIN table

\* POST on a list view with a payload.
perform_create(user, path, data) ==
    LET match == get_resolver[app][path]
        view == View(match.view)
        model == view.model
        table == db[model.db_table]
    IN  /\ match.view \in GenericViewNames
        /\ view.generic = "ListCreateAPIView"
        /\ LET instance == save(model, new_instance(model, data, user))
                pk == last_pk[model.db_table] + 1
            IN  /\ request' = Request(user, "POST", path, data)
                /\ IF ~check_permissions(view, "POST", user)
                   THEN /\ response' = permission_denied(user)
                        /\ UNCHANGED <<db, last_pk>>
                   ELSE IF "POST" \in view.editor_only /\ ~is_editor(user)
                   THEN /\ response' = AdminAccessRequired
                        /\ UNCHANGED <<db, last_pk>>
                   ELSE IF errors(model, data, FALSE) # NoData
                   THEN /\ response' = Response(400, errors(model, data, FALSE))
                        /\ UNCHANGED <<db, last_pk>>
                   ELSE IF model.db_table \in SlugTables
                   THEN IF violates_unique(table, instance.slug)
                        THEN /\ response' = IntegrityError
                             /\ UNCHANGED <<db, last_pk>>
                        ELSE /\ db' = [db EXCEPT ![model.db_table] =
                                        Put(table, instance.slug, instance)]
                             /\ response' = Response(201, instance)
                             /\ UNCHANGED last_pk
                   ELSE /\ pk <= MaxPk
                        /\ db' = [db EXCEPT ![model.db_table] =
                                    Put(table, pk, [instance EXCEPT !.id = pk])]
                        /\ last_pk' = [last_pk EXCEPT ![model.db_table] = pk]
                        /\ response' = Response(201, [instance EXCEPT !.id = pk])
        /\ mail' = <<>>
        /\ UNCHANGED <<app, mail_attempts>>

\* POST on a list view.
create(user, path) ==
    LET match == get_resolver[app][path]
    IN  /\ match.view \in GenericViewNames
        /\ View(match.view).generic = "ListCreateAPIView"
        /\ \E data \in Payloads(View(match.view).model, "POST") :
                perform_create(user, path, data)

\* GET on a detail view other than the blog's, which overrides get.
retrieve(user, path) ==
    LET match == get_resolver[app][path]
        view == View(match.view)
        queryset == get_queryset(view, user)
        key == lookup(view.model, match.kwarg)
    IN  /\ match.view \in GenericViewNames
        /\ view.generic \in {"RetrieveUpdateDestroyAPIView", "RetrieveUpdateAPIView"}
        /\ view.name # "BlogPostDetailView"
        /\ request' = Request(user, "GET", path, NoData)
        /\ response' =
              IF ~check_permissions(view, "GET", user) THEN permission_denied(user)
              ELSE IF key \notin DOMAIN queryset THEN NotFound
              ELSE Response(200, queryset[key])
        /\ mail' = <<>>
        /\ UNCHANGED <<app, db, last_pk, mail_attempts>>

\* BlogPostDetailView.get: the retrieval, and on 200 one more view counted.
BlogPostDetailView_get(user, path) ==
    LET match == get_resolver[app][path]
        view == View(match.view)
        queryset == get_queryset(view, user)
        key == lookup(view.model, match.kwarg)
    IN  /\ match.view = "BlogPostDetailView"
        /\ request' = Request(user, "GET", path, NoData)
        /\ IF key \notin DOMAIN queryset
           THEN /\ response' = NotFound
                /\ UNCHANGED db
           ELSE /\ queryset[key].views_count < MaxViews
                /\ response' = Response(200, queryset[key])
                /\ db' = [db EXCEPT !["blog_posts"][key].views_count = @ + 1]
        /\ mail' = <<>>
        /\ UNCHANGED <<app, last_pk, mail_attempts>>

\* PUT or PATCH on a detail view with a payload.
perform_update(user, path, method, data) ==
    LET match == get_resolver[app][path]
        view == View(match.view)
        model == view.model
        queryset == get_queryset(view, user)
        key == lookup(model, match.kwarg)
    IN  /\ match.view \in GenericViewNames
        /\ view.generic = "RetrieveUpdateDestroyAPIView"
        /\ request' = Request(user, method, path, data)
        /\ IF ~check_permissions(view, method, user)
           THEN /\ response' = permission_denied(user)
                /\ UNCHANGED db
           ELSE IF method \in view.editor_only /\ ~is_editor(user)
           THEN /\ response' = AdminAccessRequired
                /\ UNCHANGED db
           ELSE IF key \notin DOMAIN queryset
           THEN /\ response' = NotFound
                /\ UNCHANGED db
           ELSE IF ~check_object_permissions(view, method, user, queryset[key])
           THEN /\ response' = permission_denied(user)
                /\ UNCHANGED db
           ELSE IF errors(model, data, method = "PATCH") # NoData
           THEN /\ response' =
                      Response(400, errors(model, data, method = "PATCH"))
                /\ UNCHANGED db
           ELSE LET instance == save(model, Override(queryset[key], data))
                IN  /\ db' = [db EXCEPT ![model.db_table][key] = instance]
                    /\ response' = Response(200, instance)
        /\ mail' = <<>>
        /\ UNCHANGED <<app, last_pk, mail_attempts>>

\* PUT or PATCH on a detail view.
update(user, path, method) ==
    LET match == get_resolver[app][path]
    IN  /\ match.view \in GenericViewNames
        /\ View(match.view).generic = "RetrieveUpdateDestroyAPIView"
        /\ \E data \in Payloads(View(match.view).model, method) :
                perform_update(user, path, method, data)

\* on_delete=CASCADE: the applications to a job position go with it.
cascade(database, table, key) ==
    IF table = "job_positions"
    THEN [database EXCEPT
            !["job_positions"] = Remove(@, key),
            !["job_applications"] =
                [k \in {x \in DOMAIN @ : @[x].position # key} |-> @[k]]]
    ELSE [database EXCEPT ![table] = Remove(@, key)]

\* DELETE on a detail view.
destroy(user, path) ==
    LET match == get_resolver[app][path]
        view == View(match.view)
        model == view.model
        queryset == get_queryset(view, user)
        key == lookup(model, match.kwarg)
    IN  /\ match.view \in GenericViewNames
        /\ view.generic = "RetrieveUpdateDestroyAPIView"
        /\ request' = Request(user, "DELETE", path, NoData)
        /\ IF ~check_permissions(view, "DELETE", user)
           THEN /\ response' = permission_denied(user)
                /\ UNCHANGED db
           ELSE IF "DELETE" \in view.editor_only /\ ~is_editor(user)
           THEN /\ response' = AdminAccessRequired
                /\ UNCHANGED db
           ELSE IF key \notin DOMAIN queryset
           THEN /\ response' = NotFound
                /\ UNCHANGED db
           ELSE IF ~check_object_permissions(view, "DELETE", user, queryset[key])
           THEN /\ response' = permission_denied(user)
                /\ UNCHANGED db
           ELSE /\ db' = cascade(db, model.db_table, key)
                /\ response' = Response(204, NoData)
        /\ mail' = <<>>
        /\ UNCHANGED <<app, last_pk, mail_attempts>>

\* A path no pattern of the URLconf matches: the resolver raises Resolver404
\* and the request is answered 404 before any view runs.
page_not_found(user, method, path) ==
    /\ get_resolver[app][path].view = "Http404"
    /\ request' = Request(user, method, path, NoData)
    /\ response' = NotFound
    /\ mail' = <<>>
    /\ UNCHANGED <<app, db, last_pk, mail_attempts>>

-----------------------------------------------------------------------------
(* The function views.                                                     *)

\* A faulty list of posts: the status filter is missing.
all_posts(database) == Rows(database["blog_posts"])

featured_posts_view(database) ==
    {r \in Rows(database["blog_posts"]) : r.status = "published" /\ r.is_featured}

recent_posts_view(database) ==
    {r \in Rows(database["blog_posts"]) : r.status = "published"}

open_positions_view(database) ==
    {r \in Rows(database["job_positions"]) : r.status = "open"}

PublicFunctionViews ==
    {"featured_posts_view", "recent_posts_view", "open_positions_view"}

\* The statistics views and the table each one counts.
StatsViews ==
    {"portfolio_stats_view", "course_stats_view", "career_stats_view",
     "testimonial_stats_view", "contact_stats_view", "newsletter_stats_view"}

stats_table(name) ==
    CASE name = "portfolio_stats_view" -> "portfolio_projects"
      [] name = "course_stats_view" -> "training_courses"
      [] name = "career_stats_view" -> "job_positions"
      [] name = "testimonial_stats_view" -> "testimonials"
      [] name = "contact_stats_view" -> "contacts"
      [] name = "newsletter_stats_view" -> "newsletter_subscriptions"

\* @permission_classes([IsAuthenticated]), then the is_editor check.
stats_view(name, user) ==
    IF ~has_permission("IsAuthenticated", "GET", user) THEN permission_denied(user)
    ELSE IF ~is_editor(user) THEN AdminAccessRequired
    ELSE Response(200, [total |-> Cardinality(DOMAIN db[stats_table(name)])])

\* GET on a function view.
api_view(user, path) ==
    LET name == get_resolver[app][path].view
    IN  /\ name \in StatsViews \cup PublicFunctionViews
        /\ request' = Request(user, "GET", path, NoData)
        /\ response' =
              CASE name \in StatsViews -> stats_view(name, user)
                [] name = "featured_posts_view" ->
                      Response(200, [results |-> featured_posts_view(db)])
                [] name = "recent_posts_view" ->
                      Response(200, [results |-> recent_posts_view(db)])
                [] name = "open_positions_view" ->
                      Response(200, [results |-> open_positions_view(db)])
        /\ mail' = <<>>
        /\ UNCHANGED <<app, db, last_pk, mail_attempts>>

-----------------------------------------------------------------------------
(* Notification mail.  send_mail(fail_silently=True) delivers, fails       *)
(* silently, or raises; every caller wraps it in try/except Exception.     *)

MailOutcomes == {"sent", "failed", "raised"}

\* A faulty helper, without the try/except: what send_mail raises reaches the
\* handler.
propagate(outcome) == IF outcome = "raised" THEN "raised" ELSE "returned"

\* try: send_mail(...) except Exception as e: print(...)
try_send_mail(outcome) == "returned"

\* One more send_mail call counted for a row and a template.
attempt(attempts, key) ==
    Put(attempts, key, (IF key \in DOMAIN attempts THEN attempts[key] ELSE 0) + 1)

\* The helpers a handler calls, in order; a helper that raises ends the handler.
RECURSIVE dispatch(_, _, _, _, _)
dispatch(attempts, table, pk, templates, outcomes) ==
    IF templates = <<>> THEN [attempts |-> attempts, result |-> "returned"]
    ELSE LET made == attempt(attempts, <<table, pk, Head(templates)>>)
         IN  IF try_send_mail(Head(outcomes)) = "raised"
             THEN [attempts |-> made, result |-> "raised"]
             ELSE dispatch(made, table, pk, Tail(templates), Tail(outcomes))

ServerError == Response(500, [detail |-> "Server Error (500)"])

\* The callers of the submission endpoints.
Submitters == {AnonymousUser}

\* request.META of a submission: the client's address and user agent.
REMOTE_ADDR == "203.0.113.7"

HTTP_USER_AGENT == "curl/8"

\* A faulty error report: the payload is rejected, the fields are not named.
unnamed_errors(required, data, invalid) ==
    IF (required \ DOMAIN data) \cup invalid = {} THEN <<>>
    ELSE [non_field_errors |-> "Invalid data."]

\* A serializer's errors: the required fields the payload lacks, and the fields
\* whose validate_<field> rejected the value.
field_errors(required, data, invalid) ==
    [f \in (required \ DOMAIN data) \cup invalid |->
        IF f \in DOMAIN data THEN "invalid" ELSE "This field is required."]

-----------------------------------------------------------------------------
(* contacts: POST /contacts/                                               *)

MinMessageLength == 10

Messages ==
    {Rep("x", MinMessageLength), Rep("x", MinMessageLength - 1),
     <<" ">> \o Rep("x", MinMessageLength - 1),
     Rep("x", MinMessageLength - 1) \o <<" ">>,
     <<" ">> \o Rep("x", MinMessageLength)}

ContactPayloads ==
    {[name |-> "Uma", email |-> "uma@x.io", message |-> m] : m \in Messages}
    \cup {[name |-> "Uma", email |-> "uma@x.io"],
          [name |-> "Uma", message |-> Rep("x", MinMessageLength)]}

\* A faulty length check: the surrounding whitespace is counted.
untrimmed(value) == Len(value) >= MinMessageLength

validate_message(value) == Len(strip(value)) >= MinMessageLength

ContactSerializer_errors(data) ==
    field_errors({"name", "email", "message"}, data,
                 IF "message" \in DOMAIN data /\ ~validate_message(data.message)
                 THEN {"message"} ELSE {})

ContactSerializer_create(data, pk) ==
    [id |-> pk, name |-> data.name, email |-> data.email,
     inquiry_type |-> "general", message |-> strip(data.message),
     ip_address |-> REMOTE_ADDR, user_agent |-> HTTP_USER_AGENT,
     status |-> ContactModel.default, admin_notes |-> ""]

ContactCreateView_post(user, path) ==
    LET pk == last_pk["contacts"] + 1
    IN  /\ get_resolver[app][path].view = "ContactCreateView"
        /\ \E data \in ContactPayloads :
            /\ request' = Request(user, "POST", path, data)
            /\ IF ContactSerializer_errors(data) # NoData
               THEN /\ response' = Response(400, ContactSerializer_errors(data))
                    /\ mail' = <<>>
                    /\ UNCHANGED <<db, last_pk, mail_attempts>>
               ELSE \E outcome \in MailOutcomes :
                    LET sent == dispatch(mail_attempts, "contacts", pk,
                                         <<"notification">>, <<outcome>>)
                    IN  /\ pk <= MaxSubmissions
                        /\ db' = [db EXCEPT !["contacts"] =
                                    Put(@, pk, ContactSerializer_create(data, pk))]
                        /\ last_pk' = [last_pk EXCEPT !["contacts"] = pk]
                        /\ mail_attempts' = sent.attempts
                        /\ mail' = <<outcome>>
                        /\ response' =
                              IF sent.result = "raised" THEN ServerError
                              ELSE Response(201, [message |-> "Thank you for your message.",
                                                  id |-> pk])
        /\ UNCHANGED app

-----------------------------------------------------------------------------
(* newsletter: POST /newsletter/subscribe/ and /newsletter/unsubscribe/    *)

Emails == {"a@x.io", "b@x.io"}

NewsletterPayloads == {[email |-> e] : e \in Emails} \cup {NoData}

\* The keys of the subscriptions to an address.
subscriptions(table, email) == {k \in DOMAIN table : table[k].email = email}

\* email is unique=True: the serializer carries a UniqueValidator.
NewsletterSubscriptionSerializer_errors(data) ==
    field_errors({"email"}, data,
                 IF "email" \in DOMAIN data
                    /\ subscriptions(db["newsletter_subscriptions"], data.email) # {}
                 THEN {"email"} ELSE {})

\* A faulty resubscribe: the flag alone.
activate_only(row) == [row EXCEPT !.is_active = TRUE]

resubscribe(row) == [row EXCEPT !.is_active = TRUE, !.unsubscribed_at = "null"]

unsubscribe(row) == [row EXCEPT !.is_active = FALSE, !.unsubscribed_at = "set"]

\* get_or_create on the address, and a row that exists inactive is reactivated.
NewsletterSubscriptionSerializer_create(table, email, pk) ==
    LET found == subscriptions(table, email)
    IN  IF found = {}
        THEN Put(table, pk, [id |-> pk, email |-> email,
                             is_active |-> NewsletterSubscription.default,
                             source |-> "website", unsubscribed_at |-> "null"])
        ELSE [k \in DOMAIN table |->
                IF k \in found /\ ~table[k].is_active THEN resubscribe(table[k])
                ELSE table[k]]

NewsletterSubscribeView_post(user, path) ==
    LET table == db["newsletter_subscriptions"]
        next == last_pk["newsletter_subscriptions"] + 1
    IN  /\ get_resolver[app][path].view = "NewsletterSubscribeView"
        /\ \E data \in NewsletterPayloads :
            /\ request' = Request(user, "POST", path, data)
            /\ IF NewsletterSubscriptionSerializer_errors(data) # NoData
               THEN /\ response' =
                          Response(400, NewsletterSubscriptionSerializer_errors(data))
                    /\ mail' = <<>>
                    /\ UNCHANGED <<db, last_pk, mail_attempts>>
               ELSE \E outcome \in MailOutcomes :
                    LET created == subscriptions(table, data.email) = {}
                        saved == NewsletterSubscriptionSerializer_create(
                                    table, data.email, next)
                        pk == CHOOSE k \in subscriptions(saved, data.email) : TRUE
                        sent == dispatch(mail_attempts, "newsletter_subscriptions",
                                         pk, <<"welcome">>, <<outcome>>)
                    IN  /\ created => next <= MaxSubmissions
                        /\ db' = [db EXCEPT !["newsletter_subscriptions"] = saved]
                        /\ last_pk' = IF created
                                      THEN [last_pk EXCEPT
                                              !["newsletter_subscriptions"] = next]
                                      ELSE last_pk
                        /\ mail_attempts' = sent.attempts
                        /\ mail' = <<outcome>>
                        /\ response' =
                              IF sent.result = "raised" THEN ServerError
                              ELSE Response(201, [message |-> "Successfully subscribed to newsletter!",
                                                  email |-> data.email])
        /\ UNCHANGED app

\* NewsletterUnsubscribeSerializer.validate_email: an active subscription exists.
active(table, email) == {k \in subscriptions(table, email) : table[k].is_active}

newsletter_unsubscribe_view(user, path) ==
    LET table == db["newsletter_subscriptions"]
    IN  /\ get_resolver[app][path].view = "newsletter_unsubscribe_view"
        /\ \E data \in NewsletterPayloads :
            /\ request' = Request(user, "POST", path, data)
            /\ IF "email" \notin DOMAIN data \/ active(table, data.email) = {}
               THEN /\ response' =
                          Response(400, field_errors({"email"}, data,
                                                     {"email"} \cap DOMAIN data))
                    /\ mail' = <<>>
                    /\ UNCHANGED <<db, mail_attempts>>
               ELSE \E outcome \in MailOutcomes :
                    LET pk == CHOOSE k \in active(table, data.email) : TRUE
                        sent == dispatch(mail_attempts, "newsletter_subscriptions",
                                         pk, <<"unsubscribe_confirmation">>,
                                         <<outcome>>)
                    IN  /\ db' = [db EXCEPT !["newsletter_subscriptions"][pk] =
                                    unsubscribe(@)]
                        /\ mail_attempts' = sent.attempts
                        /\ mail' = <<outcome>>
                        /\ response' =
                              IF sent.result = "raised" THEN ServerError
                              ELSE Response(200, [message |-> "Successfully unsubscribed from newsletter."])
        /\ UNCHANGED <<app, last_pk>>

-----------------------------------------------------------------------------
(* careers: POST /careers/positions/<slug>/apply/                          *)

MaxResumeSize == 5 * 1024 * 1024

Resumes ==
    {[size |-> 1024, content_type |-> "application/pdf"],
     [size |-> MaxResumeSize + 1, content_type |-> "application/pdf"]}

Application(resume) ==
    [first_name |-> "Uma", last_name |-> "Lee", email |-> "uma@x.io",
     cover_letter |-> "I would like to apply.", resume |-> resume,
     years_of_experience |-> 3]

ApplicationPayloads ==
    {Application(r) : r \in Resumes}
    \cup {[first_name |-> "Uma", last_name |-> "Lee",
           cover_letter |-> "I would like to apply.",
           resume |-> [size |-> 1024, content_type |-> "application/pdf"],
           years_of_experience |-> 3],
          [first_name |-> "Uma", last_name |-> "Lee", email |-> "uma@x.io",
           cover_letter |-> "I would like to apply.", years_of_experience |-> 3]}

validate_resume(value) ==
    /\ value.size <= MaxResumeSize
    /\ value.content_type \in
          {"application/pdf", "application/msword",
           "application/vnd.openxmlformats-officedocument.wordprocessingml.document"}

JobApplicationSerializer_errors(data) ==
    field_errors({"first_name", "last_name", "email", "cover_letter", "resume",
                  "years_of_experience"}, data,
                 IF "resume" \in DOMAIN data /\ ~validate_resume(data.resume)
                 THEN {"resume"} ELSE {})

JobApplicationSerializer_create(data, position, pk) ==
    [id |-> pk, position |-> position, first_name |-> data.first_name,
     last_name |-> data.last_name, email |-> data.email,
     cover_letter |-> data.cover_letter, resume |-> data.resume,
     years_of_experience |-> data.years_of_experience,
     ip_address |-> REMOTE_ADDR, user_agent |-> HTTP_USER_AGENT,
     status |-> JobApplication.default, admin_notes |-> ""]

\* A faulty lookup: the position is found whatever its status.
any_status(positions, slug) == slug \in DOMAIN positions

\* get_object_or_404(JobPosition, slug=position_slug, status='open') finds
\* the position.
open_position(positions, slug) ==
    /\ slug \in DOMAIN positions
    /\ positions[slug].status = "open"

JobApplicationCreateView_post(user, path) ==
    LET match == get_resolver[app][path]
        positions == db["job_positions"]
        pk == last_pk["job_applications"] + 1
    IN  /\ match.view = "JobApplicationCreateView"
        /\ \E data \in ApplicationPayloads :
            /\ request' = Request(user, "POST", path, data)
            /\ IF ~open_position(positions, match.kwarg)
               THEN /\ response' = NotFound
                    /\ mail' = <<>>
                    /\ UNCHANGED <<db, last_pk, mail_attempts>>
               ELSE IF JobApplicationSerializer_errors(data) # NoData
               THEN /\ response' =
                          Response(400, JobApplicationSerializer_errors(data))
                    /\ mail' = <<>>
                    /\ UNCHANGED <<db, last_pk, mail_attempts>>
               ELSE \E first, second \in MailOutcomes :
                    LET sent == dispatch(mail_attempts, "job_applications", pk,
                                         <<"confirmation", "admin_notification">>,
                                         <<first, second>>)
                    IN  /\ pk <= MaxSubmissions
                        /\ db' = [db EXCEPT !["job_applications"] =
                                    Put(@, pk, JobApplicationSerializer_create(
                                                  data, match.kwarg, pk))]
                        /\ last_pk' = [last_pk EXCEPT !["job_applications"] = pk]
                        /\ mail_attempts' = sent.attempts
                        /\ mail' = <<first, second>>
                        /\ response' =
                              IF sent.result = "raised" THEN ServerError
                              ELSE Response(201, [message |-> "Application submitted successfully!",
                                                  application_id |-> pk])
        /\ UNCHANGED app

-----------------------------------------------------------------------------
(* testimonials: POST /testimonials/submit/                                *)

MinContentLength == 20

Contents ==
    {Rep("y", MinContentLength), Rep("y", MinContentLength - 1),
     <<" ">> \o Rep("y", MinContentLength - 1) \o <<" ">>,
     <<" ">> \o Rep("y", MinContentLength) \o <<" ">>}

SubmissionPayloads ==
    {[name |-> "Uma", email |-> "uma@x.io", title |-> "Engineer",
      content |-> c, rating |-> 5] : c \in Contents}
    \cup {[name |-> "Uma", email |-> "uma@x.io", title |-> "Engineer",
           rating |-> 5],
          [email |-> "uma@x.io", title |-> "Engineer",
           content |-> Rep("y", MinContentLength), rating |-> 5]}

validate_content(value) == Len(strip(value)) >= MinContentLength

TestimonialSubmissionSerializer_errors(data) ==
    field_errors({"name", "email", "title", "content", "rating"}, data,
                 IF "content" \in DOMAIN data /\ ~validate_content(data.content)
                 THEN {"content"} ELSE {})

TestimonialSubmissionSerializer_create(data, pk) ==
    [id |-> pk, name |-> data.name, email |-> data.email, title |-> data.title,
     content |-> strip(data.content), rating |-> data.rating,
     is_approved |-> TestimonialSubmission.default, admin_notes |-> ""]

TestimonialSubmissionCreateView_post(user, path) ==
    LET pk == last_pk["testimonial_submissions"] + 1
    IN  /\ get_resolver[app][path].view = "TestimonialSubmissionCreateView"
        /\ \E data \in SubmissionPayloads :
            /\ request' = Request(user, "POST", path, data)
            /\ IF TestimonialSubmissionSerializer_errors(data) # NoData
               THEN /\ response' =
                          Response(400, TestimonialSubmissionSerializer_errors(data))
                    /\ mail' = <<>>
                    /\ UNCHANGED <<db, last_pk, mail_attempts>>
               ELSE \E first, second \in MailOutcomes :
                    LET sent == dispatch(mail_attempts, "testimonial_submissions", pk,
                                         <<"confirmation", "admin_notification">>,
                                         <<first, second>>)
                    IN  /\ pk <= MaxSubmissions
                        /\ db' = [db EXCEPT !["testimonial_submissions"] =
                                    Put(@, pk, TestimonialSubmissionSerializer_create(
                                                  data, pk))]
                        /\ last_pk' = [last_pk EXCEPT
                                         !["testimonial_submissions"] = pk]
                        /\ mail_attempts' = sent.attempts
                        /\ mail' = <<first, second>>
                        /\ response' =
                              IF sent.result = "raised" THEN ServerError
                              ELSE Response(201, [message |-> "Thank you for your testimonial!",
                                                  submission_id |-> pk])
        /\ UNCHANGED app

-----------------------------------------------------------------------------
(* contacts, careers: PUT and PATCH on /contacts/<pk>/ and                 *)
(* /careers/applications/<pk>/ with the admin serializers.                 *)

ContactAdminSerializer_read_only_fields ==
    {"id", "name", "email", "inquiry_type", "message", "ip_address",
     "user_agent", "created_at"}

JobApplicationAdminSerializer_read_only_fields ==
    {"id", "position_title", "full_name", "first_name", "last_name", "email",
     "phone", "location", "cover_letter", "resume", "portfolio_url",
     "github_url", "linkedin_url", "years_of_experience", "current_salary",
     "expected_salary", "ip_address", "user_agent", "created_at"}

read_only_fields(view) ==
    IF view.name = "ContactDetailView"
    THEN ContactAdminSerializer_read_only_fields
    ELSE JobApplicationAdminSerializer_read_only_fields

\* The payloads of an admin update: a status of the model's choices, a note
\* sent along with a read-only field, and a status outside the choices.
AdminPayloads(model) ==
    {[status |-> IF model.db_table = "contacts" THEN "resolved" ELSE "reviewing"],
     [admin_notes |-> "seen", email |-> "mallory@x.io"],
     [status |-> "bogus"]}

\* A faulty serializer: the read-only fields are written like the others.
every_field(read_only, data) == data

\* ModelSerializer: a read-only field of the payload is ignored.
validated_data(read_only, data) ==
    [f \in DOMAIN data \ read_only |-> data[f]]

\* ChoiceField: a status outside the model's choices is rejected.
admin_errors(model, data) ==
    IF "status" \in DOMAIN data /\ data.status \notin model.choices
    THEN [status |-> "invalid"] ELSE NoData

\* PUT or PATCH on ContactDetailView or JobApplicationDetailView.
admin_update(user, path, method) ==
    LET match == get_resolver[app][path]
        view == View(match.view)
        model == view.model
        queryset == get_queryset(view, user)
        key == lookup(model, match.kwarg)
    IN  /\ match.view \in {"ContactDetailView", "JobApplicationDetailView"}
        /\ \E data \in AdminPayloads(model) :
            /\ request' = Request(user, method, path, data)
            /\ IF ~check_permissions(view, method, user)
               THEN /\ response' = permission_denied(user)
                    /\ UNCHANGED db
               ELSE IF key \notin DOMAIN queryset
               THEN /\ response' = NotFound
                    /\ UNCHANGED db
               ELSE IF admin_errors(model, data) # NoData
               THEN /\ response' = Response(400, admin_errors(model, data))
                    /\ UNCHANGED db
               ELSE LET instance ==
                            Override(queryset[key],
                                     validated_data(read_only_fields(view), data))
                    IN  /\ db' = [db EXCEPT ![model.db_table][key] = instance]
                        /\ response' = Response(200, instance)
        /\ mail' = <<>>
        /\ UNCHANGED <<app, last_pk, mail_attempts>>

-----------------------------------------------------------------------------
(* The specification.                                                      *)

Init ==
    /\ app \in Apps
    /\ db = [t \in Tables |-> EmptyTable]
    /\ last_pk = [t \in PkTables |-> 0]
    /\ mail_attempts = EmptyTable
    /\ request = [user |-> AnonymousUser, method |-> "OPTIONS", path |-> <<>>,
                  view |-> "none", data |-> NoData]
    /\ mail = <<>>
    /\ response = Response(200, NoData)
    /\ inflight = [w \in Workers |-> Idle]

List ==
    /\ \E user \in Callers, path \in Paths(app) : list(user, path)
    /\ UNCHANGED inflight

Create ==
    /\ \E user \in Callers, path \in Targets(app, "POST") : create(user, path)
    /\ UNCHANGED inflight

Retrieve ==
    /\ \E user \in Callers, path \in Paths(app) : retrieve(user, path)
    /\ UNCHANGED inflight

RetrieveBlogPost ==
    /\ \E user \in Callers, path \in Paths(app) : BlogPostDetailView_get(user, path)
    /\ UNCHANGED inflight

Update ==
    /\ \E user \in Callers, method \in {"PUT", "PATCH"} :
           \E path \in Targets(app, method) : update(user, path, method)
    /\ UNCHANGED inflight

AdminUpdate ==
    /\ \E user \in Callers, method \in {"PUT", "PATCH"}, path \in Paths(app) :
           admin_update(user, path, method)
    /\ UNCHANGED inflight

Destroy ==
    /\ \E user \in Callers, path \in Targets(app, "DELETE") : destroy(user, path)
    /\ UNCHANGED inflight

ApiView ==
    /\ \E user \in Callers, path \in Paths(app) : api_view(user, path)
    /\ UNCHANGED inflight

SubmitContact ==
    /\ \E user \in Submitters, path \in Paths(app) : ContactCreateView_post(user, path)
    /\ UNCHANGED inflight

Subscribe ==
    /\ \E user \in Submitters, path \in Paths(app) :
           NewsletterSubscribeView_post(user, path)
    /\ UNCHANGED inflight

Unsubscribe ==
    /\ \E user \in Submitters, path \in Paths(app) :
           newsletter_unsubscribe_view(user, path)
    /\ UNCHANGED inflight

Apply ==
    /\ \E user \in Submitters, path \in Paths(app) :
           JobApplicationCreateView_post(user, path)
    /\ UNCHANGED inflight

SubmitTestimonial ==
    /\ \E user \in Submitters, path \in Paths(app) :
           TestimonialSubmissionCreateView_post(user, path)
    /\ UNCHANGED inflight

Next ==
    \/ List
    \/ Create
    \/ Retrieve
    \/ RetrieveBlogPost
    \/ Update
    \/ AdminUpdate
    \/ Destroy
    \/ ApiView
    \/ SubmitContact
    \/ Subscribe
    \/ Unsubscribe
    \/ Apply
    \/ SubmitTestimonial

Spec == Init /\ [][Next]_vars

-----------------------------------------------------------------------------
(* The specification of the slugs: an administrator creates and retitles   *)
(* content entities with the titles of SlugTitles.                         *)

ContentView(a) == View(get_resolver[a][ListPath(a)].view)

ContentTable(a) == ContentView(a).model.db_table

\* A payload that carries the title and leaves every other field to its
\* default.
TitleOnly(a, title) == [f \in {ContentView(a).model.title_field} |-> title]

\* The titles an update gives to an entity.
RenameTitles == {"Another Test Project", "!!!"}

DetailPaths(a) == SlugPaths(a) \ {ListPath(a)}

SlugInit == Init /\ app \in ContentApps

SlugCreate ==
    \E title \in SlugTitles :
        /\ perform_create("ann", ListPath(app), TitleOnly(app, title))
        /\ Cardinality(DOMAIN db'[ContentTable(app)]) <= MaxEntities
        /\ UNCHANGED inflight

SlugUpdate ==
    \E method \in {"PUT", "PATCH"}, path \in DetailPaths(app),
       title \in RenameTitles :
        /\ perform_update("ann", path, method, TitleOnly(app, title))
        /\ UNCHANGED inflight

SlugNotFound ==
    \E method \in {"GET", "PUT", "PATCH"}, path \in DetailPaths(app) :
        /\ page_not_found("ann", method, path)
        /\ UNCHANGED inflight

SlugNext ==
    \/ SlugCreate
    \/ SlugUpdate
    \/ SlugNotFound

SlugSpec == SlugInit /\ [][SlugNext]_vars

-----------------------------------------------------------------------------
(* The specification of the races: two workers each handle one request,    *)
(* and the steps of the two handlers interleave.  A handler is split where *)
(* it reads or writes a table: validation, then the save; for the GET of a *)
(* blog post, the retrieve, the second get_object, then the write of       *)
(* increment_views.  One INSERT or UPDATE statement is one step.           *)

RaceApps == ContentApps \cup {"newsletter"}

\* The titles of the concurrent creates: the first two derive one slug.
RaceTitles == {"Hello World!!", "Hello World", "snake_case"}

\* The post the concurrent GETs read, as an administrator's create stored it.
PublishedPost ==
    save(BlogPost, new_instance(BlogPost,
            [title |-> "Another Test Project", status |-> "published"], "ann"))

Pending == Response(0, NoData)

\* A worker whose handler has answered.
Done(worker, answer) == [worker EXCEPT !.pc = "done", !.response = answer]

\* A worker that takes a request and is about to run the step `pc` of it.
Handling(kind, user, path, data, pc) ==
    [pc |-> pc, kind |-> kind, user |-> user, path |-> path, data |-> data,
     seen |-> 0, response |-> Pending]

RaceInit ==
    /\ app \in RaceApps
    /\ db = [t \in Tables |->
                IF t = "blog_posts" /\ app = "blogs"
                THEN Put(EmptyTable, PublishedPost.slug, PublishedPost)
                ELSE EmptyTable]
    /\ last_pk = [t \in PkTables |-> 0]
    /\ mail_attempts = EmptyTable
    /\ request = [user |-> AnonymousUser, method |-> "OPTIONS", path |-> <<>>,
                  view |-> "none", data |-> NoData]
    /\ mail = <<>>
    /\ response = Response(200, NoData)
    /\ inflight = [w \in Workers |-> Idle]

\* POST on a content list, up to serializer.is_valid(): the permission
\* classes, the role check and the field validation read no table.
create_is_valid(w, user, data) ==
    LET path == ListPath(app)
        view == ContentView(app)
        taken == Handling("create", user, path, data, "save")
    IN  /\ app \in ContentApps
        /\ inflight[w].pc = "idle"
        /\ request' = Request(user, "POST", path, data)
        /\ inflight' = [inflight EXCEPT ![w] =
                IF ~check_permissions(view, "POST", user)
                THEN Done(taken, permission_denied(user))
                ELSE IF "POST" \in view.editor_only /\ ~is_editor(user)
                THEN Done(taken, AdminAccessRequired)
                ELSE IF errors(view.model, data, FALSE) # NoData
                THEN Done(taken, Response(400, errors(view.model, data, FALSE)))
                ELSE taken]
        /\ response' = inflight'[w].response
        /\ UNCHANGED <<app, db, last_pk, mail_attempts, mail>>

\* serializer.save() of that POST: Model.save() and its INSERT.
create_save(w) ==
    /\ inflight[w].pc = "save"
    /\ inflight[w].kind = "create"
    /\ perform_create(inflight[w].user, inflight[w].path, inflight[w].data)
    /\ inflight' = [inflight EXCEPT ![w] = Done(@, response')]

\* NewsletterSubscribeView.post up to serializer.is_valid(): the
\* UniqueValidator queries the table for the address.
subscribe_is_valid(w, user, data) ==
    LET path == <<"subscribe">>
        taken == Handling("subscribe", user, path, data, "save")
        found == NewsletterSubscriptionSerializer_errors(data)
    IN  /\ app = "newsletter"
        /\ inflight[w].pc = "idle"
        /\ request' = Request(user, "POST", path, data)
        /\ inflight' = [inflight EXCEPT ![w] =
                IF found # NoData THEN Done(taken, Response(400, found))
                ELSE taken]
        /\ response' = inflight'[w].response
        /\ mail' = <<>>
        /\ UNCHANGED <<app, db, last_pk, mail_attempts>>

\* serializer.save() of the subscribe and the rest of the handler:
\* get_or_create returns the row another request has inserted since the
\* validation (its INSERT fails on the unique address and it reads the row),
\* then the welcome mail and the 201.
subscribe_save(w) ==
    LET table == db["newsletter_subscriptions"]
        next == last_pk["newsletter_subscriptions"] + 1
        data == inflight[w].data
    IN  /\ inflight[w].pc = "save"
        /\ inflight[w].kind = "subscribe"
        /\ \E outcome \in MailOutcomes :
            LET created == subscriptions(table, data.email) = {}
                saved == NewsletterSubscriptionSerializer_create(
                            table, data.email, next)
                pk == CHOOSE k \in subscriptions(saved, data.email) : TRUE
                sent == dispatch(mail_attempts, "newsletter_subscriptions",
                                 pk, <<"welcome">>, <<outcome>>)
            IN  /\ created => next <= MaxSubmissions
                /\ db' = [db EXCEPT !["newsletter_subscriptions"] = saved]
                /\ last_pk' = IF created
                              THEN [last_pk EXCEPT
                                      !["newsletter_subscriptions"] = next]
                              ELSE last_pk
                /\ mail_attempts' = sent.attempts
                /\ mail' = <<outcome>>
                /\ response' =
                      IF sent.result = "raised" THEN ServerError
                      ELSE Response(201, [message |-> "Successfully subscribed to newsletter!",
                                          email |-> data.email])
        /\ inflight' = [inflight EXCEPT ![w] = Done(@, response')]
        /\ UNCHANGED <<app, request>>

\* BlogPostDetailView.get, super().get(): the post is looked up and
\* serialized.
BlogPostDetailView_retrieve(w, user, path) ==
    LET match == get_resolver[app][path]
        view == View(match.view)
        queryset == get_queryset(view, user)
        key == lookup(view.model, match.kwarg)
        taken == Handling("get", user, path, NoData, "get_object")
    IN  /\ match.view = "BlogPostDetailView"
        /\ inflight[w].pc = "idle"
        /\ request' = Request(user, "GET", path, NoData)
        /\ inflight' = [inflight EXCEPT ![w] =
                IF key \notin DOMAIN queryset THEN Done(taken, NotFound)
                ELSE [taken EXCEPT !.response = Response(200, queryset[key])]]
        /\ response' = inflight'[w].response
        /\ mail' = <<>>
        /\ UNCHANGED <<app, db, last_pk, mail_attempts>>

\* blog_post = self.get_object(): the row is read again, into memory.
BlogPostDetailView_get_object(w) ==
    LET match == get_resolver[app][inflight[w].path]
        view == View(match.view)
        queryset == get_queryset(view, inflight[w].user)
        key == lookup(view.model, match.kwarg)
    IN  /\ inflight[w].pc = "get_object"
        /\ key \in DOMAIN queryset
        /\ inflight' = [inflight EXCEPT ![w].pc = "increment_views",
                                         ![w].seen = queryset[key].views_count]
        /\ UNCHANGED <<app, db, last_pk, mail_attempts, request, mail, response>>

\* A faulty increment: the UPDATE adds one to the stored count.
atomic_increment(seen, stored) == stored + 1

\* self.views_count += 1 on the instance in memory.
increment_views(seen, stored) == seen + 1

\* blog_post.increment_views(): save(update_fields=['views_count']) writes
\* the count of the instance in memory.
BlogPost_increment_views(w) ==
    LET key == get_resolver[app][inflight[w].path].kwarg
    IN  /\ inflight[w].pc = "increment_views"
        /\ db' = [db EXCEPT !["blog_posts"][key].views_count =
                        increment_views(inflight[w].seen, @)]
        /\ inflight' = [inflight EXCEPT ![w].pc = "done"]
        /\ UNCHANGED <<app, last_pk, mail_attempts, request, mail, response>>

RaceCreateIsValid ==
    \E w \in Workers, title \in RaceTitles :
        create_is_valid(w, "ann", TitleOnly(app, title))

RaceCreateSave == \E w \in Workers : create_save(w)

RaceSubscribeIsValid ==
    \E w \in Workers, data \in NewsletterPayloads :
        subscribe_is_valid(w, AnonymousUser, data)

RaceSubscribeSave == \E w \in Workers : subscribe_save(w)

RaceRetrieve ==
    \E w \in Workers, path \in DetailPaths(app) :
        BlogPostDetailView_retrieve(w, AnonymousUser, path)

RaceGetObject == \E w \in Workers : BlogPostDetailView_get_object(w)

RaceIncrementViews == \E w \in Workers : BlogPost_increment_views(w)

RaceNext ==
    \/ RaceCreateIsValid
    \/ RaceCreateSave
    \/ RaceSubscribeIsValid
    \/ RaceSubscribeSave
    \/ RaceRetrieve
    \/ RaceGetObject
    \/ RaceIncrementViews

RaceSpec == RaceInit /\ [][RaceNext]_vars

-----------------------------------------------------------------------------
(* users: registration, login, profile, password change, logout and token  *)
(* refresh, under AuthSpec.  The table users is keyed by the email; a      *)
(* refresh token is the number of its row in outstanding_tokens, and 0 is  *)
(* a string no token was issued as.  A caller is the account of the access *)
(* token it presents, or anonymous.                                        *)

\* The accounts the behaviour starts with, created by an administrator.
SeedUsers ==
    ("ann@x.io" :> [email |-> "ann@x.io", role |-> "admin", is_active |-> TRUE,
                    password |-> "pw1", first_name |-> "Ann"])
    @@ ("uma@x.io" :> [email |-> "uma@x.io", role |-> "user", is_active |-> TRUE,
                       password |-> "pw1", first_name |-> "Uma"])

NewEmail == "new@x.io"

AuthCallers == DOMAIN SeedUsers \cup {NewEmail, AnonymousUser}

\* JWTAuthentication: the access token of an active account.
authenticate_credentials(user) ==
    /\ user \in DOMAIN db.users
    /\ db.users[user].is_active

NotAuthenticated ==
    Response(HTTP_401_UNAUTHORIZED,
             [detail |-> "Authentication credentials were not provided."])

AuthRequest(user, method, path, view, data) ==
    [user |-> user, method |-> method, path |-> path, view |-> view,
     data |-> data]

\* RefreshToken.for_user: the token is recorded as outstanding.
for_user(tokens, n, user) == Put(tokens, n, [user |-> user])

\* UserProfileSerializer(user).data, as far as the model holds it.
UserProfileSerializer_data(row) ==
    [email |-> row.email, first_name |-> row.first_name, role |-> row.role,
     is_active |-> row.is_active]

RegistrationPayloads ==
    {[email |-> e, password |-> "pw1", password_confirm |-> c,
      first_name |-> "New", role |-> "admin"] :
        e \in {NewEmail, "uma@x.io"}, c \in {"pw1", "pw2"}}
    \cup {[email |-> NewEmail, password |-> "pw1", password_confirm |-> "pw1",
           first_name |-> "New"]}

\* email is unique=True; validate() compares the two passwords.
UserRegistrationSerializer_errors(data) ==
    IF data.email \in DOMAIN db.users THEN [email |-> "invalid"]
    ELSE IF data.password # data.password_confirm
    THEN [non_field_errors |-> "Passwords don't match"]
    ELSE NoData

\* A faulty registration: the role of the payload is stored.
create_user_with_role(data) ==
    [email |-> data.email, password |-> data.password,
     first_name |-> data.first_name, is_active |-> TRUE,
     role |-> IF "role" \in DOMAIN data THEN data.role ELSE "user"]

\* UserRegistrationSerializer.create: Meta.fields names email, username,
\* first_name, last_name and the passwords, so role takes the model default.
create_user(data) ==
    [email |-> data.email, password |-> data.password,
     first_name |-> data.first_name, is_active |-> TRUE, role |-> "user"]

UserRegistrationView_post(user, data) ==
    LET n == last_pk.outstanding_tokens + 1
    IN  /\ request' = AuthRequest(user, "POST", <<"register">>,
                                  "UserRegistrationView", data)
        /\ IF UserRegistrationSerializer_errors(data) # NoData
           THEN /\ response' =
                      Response(400, UserRegistrationSerializer_errors(data))
                /\ UNCHANGED <<db, last_pk>>
           ELSE /\ n <= MaxTokens
                /\ db' = [db EXCEPT
                            !.users = Put(@, data.email, create_user(data)),
                            !.outstanding_tokens = for_user(@, n, data.email)]
                /\ last_pk' = [last_pk EXCEPT !.outstanding_tokens = n]
                /\ response' =
                      Response(201, [message |-> "User created successfully",
                                     user |-> UserProfileSerializer_data(
                                                create_user(data)),
                                     refresh |-> n])
        /\ UNCHANGED <<app, mail_attempts, mail, inflight>>

LoginPayloads ==
    {[email |-> e, password |-> w] :
        e \in {"uma@x.io", NewEmail}, w \in {"pw1", "pw2"}}

\* UserLoginSerializer.validate: authenticate() knows the account, its
\* password matches and the account is active.
UserLoginSerializer_errors(data) ==
    IF /\ data.email \in DOMAIN db.users
       /\ db.users[data.email].password = data.password
       /\ db.users[data.email].is_active
    THEN NoData
    ELSE [non_field_errors |-> "Invalid credentials"]

UserLoginView_post(user, data) ==
    LET n == last_pk.outstanding_tokens + 1
    IN  /\ request' = AuthRequest(user, "POST", <<"login">>, "UserLoginView", data)
        /\ IF UserLoginSerializer_errors(data) # NoData
           THEN /\ response' = Response(HTTP_401_UNAUTHORIZED,
                                        UserLoginSerializer_errors(data))
                /\ UNCHANGED <<db, last_pk>>
           ELSE /\ n <= MaxTokens
                /\ db' = [db EXCEPT
                            !.outstanding_tokens = for_user(@, n, data.email)]
                /\ last_pk' = [last_pk EXCEPT !.outstanding_tokens = n]
                /\ response' =
                      Response(200, [message |-> "Login successful",
                                     user |-> UserProfileSerializer_data(
                                                db.users[data.email]),
                                     refresh |-> n])
        /\ UNCHANGED <<app, mail_attempts, mail, inflight>>

UserProfileSerializer_read_only_fields ==
    {"id", "email", "role", "created_at", "updated_at"}

ProfilePayloads ==
    {[role |-> "admin"], [role |-> "user"],
     [first_name |-> "Zed", role |-> "admin", email |-> "ann@x.io"]}

\* GET, PUT or PATCH on UserProfileView: get_object is request.user.
UserProfileView(user, method, data) ==
    LET written == validated_data(UserProfileSerializer_read_only_fields, data)
        missing == IF method = "PUT" THEN {"first_name"} \ DOMAIN written ELSE {}
    IN  /\ request' = AuthRequest(user, method, <<"profile">>, "UserProfileView",
                                  data)
        /\ IF ~authenticate_credentials(user)
           THEN /\ response' = NotAuthenticated
                /\ UNCHANGED db
           ELSE IF method = "GET"
           THEN /\ response' =
                      Response(200, UserProfileSerializer_data(db.users[user]))
                /\ UNCHANGED db
           ELSE IF missing # {}
           THEN /\ response' = Response(400, field_errors(missing, written, {}))
                /\ UNCHANGED db
           ELSE /\ db' = [db EXCEPT !.users[user] = Override(@, written)]
                /\ response' =
                      Response(200, UserProfileSerializer_data(
                                        Override(db.users[user], written)))
        /\ UNCHANGED <<app, last_pk, mail_attempts, mail, inflight>>

PasswordPayloads ==
    {[old_password |-> o, new_password |-> "pw2", new_password_confirm |-> c] :
        o \in {"pw1", "pw2"}, c \in {"pw1", "pw2"}}

PasswordChangeSerializer_errors(user, data) ==
    IF db.users[user].password # data.old_password
    THEN [old_password |-> "Old password is incorrect"]
    ELSE IF data.new_password # data.new_password_confirm
    THEN [non_field_errors |-> "New passwords don't match"]
    ELSE NoData

PasswordChangeView_post(user, data) ==
    /\ request' = AuthRequest(user, "POST", <<"password", "change">>,
                              "PasswordChangeView", data)
    /\ IF ~authenticate_credentials(user)
       THEN /\ response' = NotAuthenticated
            /\ UNCHANGED db
       ELSE IF PasswordChangeSerializer_errors(user, data) # NoData
       THEN /\ response' = Response(400, PasswordChangeSerializer_errors(user, data))
            /\ UNCHANGED db
       ELSE /\ db' = [db EXCEPT !.users[user].password = data.new_password]
            /\ response' = Response(200, [message |-> "Password changed successfully"])
    /\ UNCHANGED <<app, last_pk, mail_attempts, mail, inflight>>

\* The refresh tokens a request presents: each issued one, and a string that
\* is no token.
PresentedTokens == 0..MaxTokens

\* RefreshToken(token): the token verifies, and is not blacklisted.
verify(token) ==
    /\ token \in DOMAIN db.outstanding_tokens
    /\ token \notin DOMAIN db.blacklisted_tokens

\* A faulty blacklist: the token is not recorded.
not_recorded(blacklisted, token) == blacklisted

\* token.blacklist(): the token is recorded as blacklisted.
blacklist(blacklisted, token) == Put(blacklisted, token, [token |-> token])

\* The payload of a logout: the token under the key the view reads, under
\* the key the refresh endpoint reads, or no token.
LogoutPayloads ==
    {[refresh_token |-> t] : t \in PresentedTokens}
    \cup {[refresh |-> t] : t \in PresentedTokens \ {0}}
    \cup {NoData}

UserLogoutView_post(user, data) ==
    /\ request' = AuthRequest(user, "POST", <<"logout">>, "UserLogoutView", data)
    /\ IF ~authenticate_credentials(user)
       THEN /\ response' = NotAuthenticated
            /\ UNCHANGED db
       ELSE IF "refresh_token" \notin DOMAIN data
       THEN /\ response' = Response(200, [message |-> "Logout successful"])
            /\ UNCHANGED db
       ELSE IF ~verify(data.refresh_token)
       THEN /\ response' = Response(400, [error |-> "Invalid token"])
            /\ UNCHANGED db
       ELSE /\ db' = [db EXCEPT
                        !.blacklisted_tokens = blacklist(@, data.refresh_token)]
            /\ response' = Response(200, [message |-> "Logout successful"])
    /\ UNCHANGED <<app, last_pk, mail_attempts, mail, inflight>>

\* TokenRefreshView: a token that verifies is answered with an access token.
TokenRefreshView_post(user, token) ==
    /\ request' = AuthRequest(user, "POST", <<"token", "refresh">>,
                              "TokenRefreshView", [refresh |-> token])
    /\ response' =
          IF verify(token) THEN Response(200, [access |-> token])
          ELSE Response(HTTP_401_UNAUTHORIZED,
                        [detail |-> "Token is invalid or expired"])
    /\ UNCHANGED <<app, db, last_pk, mail_attempts, mail, inflight>>

AuthInit ==
    /\ app = "users"
    /\ db = [users |-> SeedUsers, outstanding_tokens |-> EmptyTable,
             blacklisted_tokens |-> EmptyTable]
    /\ last_pk = [outstanding_tokens |-> 0]
    /\ mail_attempts = EmptyTable
    /\ request = AuthRequest(AnonymousUser, "OPTIONS", <<>>, "none", NoData)
    /\ mail = <<>>
    /\ response = Response(200, NoData)
    /\ inflight = [w \in Workers |-> Idle]

Register ==
    \E data \in RegistrationPayloads :
        UserRegistrationView_post(AnonymousUser, data)

Login == \E data \in LoginPayloads : UserLoginView_post(AnonymousUser, data)

Profile ==
    \E user \in AuthCallers, method \in {"GET", "PUT", "PATCH"} :
        \E data \in IF method = "GET" THEN {NoData} ELSE ProfilePayloads :
            UserProfileView(user, method, data)

ChangePassword ==
    \E user \in {"uma@x.io", AnonymousUser}, data \in PasswordPayloads :
        PasswordChangeView_post(user, data)

Logout ==
    \E user \in {"uma@x.io", AnonymousUser}, data \in LogoutPayloads :
        UserLogoutView_post(user, data)

RefreshToken ==
    \E token \in PresentedTokens : TokenRefreshView_post(AnonymousUser, token)

AuthNext ==
    \/ Register
    \/ Login
    \/ Profile
    \/ ChangePassword
    \/ Logout
    \/ RefreshToken

AuthSpec == AuthInit /\ [][AuthNext]_vars

-----------------------------------------------------------------------------
(* The properties.  `request`, `mail` and `response` describe the step     *)
(* that led to a state, so a property of one request is either a state     *)
(* predicate over them or, where it compares the tables before and after,  *)
(* an action property.                                                     *)

MutatingMethods == {"POST", "PUT", "PATCH", "DELETE"}

OwnerlessViews ==
    {"ProductListView", "ProductDetailView", "PortfolioProjectListView",
     "PortfolioProjectDetailView", "CourseListView", "CourseDetailView",
     "InstructorListView", "JobPositionListView", "JobPositionDetailView",
     "TestimonialListView", "TestimonialDetailView"}

ContentViews == OwnerlessViews \cup {"BlogPostListView", "BlogPostDetailView"}

SubmissionListViews ==
    {"ContactListView", "NewsletterListView", "JobApplicationListView"}

AdminOnlyViews == StatsViews \cup SubmissionListViews

SubmissionViews ==
    {"ContactCreateView", "NewsletterSubscribeView", "JobApplicationCreateView",
     "TestimonialSubmissionCreateView"}

SubmissionTable(view) ==
    CASE view = "ContactCreateView" -> "contacts"
      [] view = "NewsletterSubscribeView" -> "newsletter_subscriptions"
      [] view = "JobApplicationCreateView" -> "job_applications"
      [] view = "TestimonialSubmissionCreateView" -> "testimonial_submissions"

RequiredFields(view) ==
    CASE view = "ContactCreateView" -> {"name", "email", "message"}
      [] view = "NewsletterSubscribeView" -> {"email"}
      [] view = "JobApplicationCreateView" ->
            {"first_name", "last_name", "email", "cover_letter", "resume",
             "years_of_experience"}
      [] view = "TestimonialSubmissionCreateView" ->
            {"name", "email", "title", "content", "rating"}

\* The caller holds the admin or the editor role, or is a superuser.
Elevated(user) == role(user) \in {"admin", "editor"} \/ is_superuser(user)

HelloWorld == CHOOSE g \in Slugs : TRUE

C2_UnauthenticatedIs401 ==
    [][ /\ ( /\ request'.user = AnonymousUser
             /\ \/ request'.view \in ContentViews
                   /\ request'.method \in MutatingMethods
                \/ request'.view \in AdminOnlyViews )
           => (response'.status = 401 /\ db' = db)
        /\ response'.status = 403 => is_authenticated(request'.user) ]_vars

\* C2, its case: an anonymous DELETE of a stored portfolio project was
\* answered 401 and the project is still stored.
C2_AnonymousDeleteRefused ==
    /\ request.user = AnonymousUser
    /\ request.method = "DELETE"
    /\ request.view = "PortfolioProjectDetailView"
    /\ response.status = 401
    /\ HelloWorld \in DOMAIN db["portfolio_projects"]

(* C3: a PUT, PATCH or DELETE on /blogs/{slug}/ changes or removes a blog *)
(* post only for its author, an admin/editor or a superuser; any other     *)
(* caller is refused and every table is left as it was.                    *)
C3_BlogWriteNeedsAuthorOrEditor ==
    [][ ( /\ request'.view = "BlogPostDetailView"
          /\ request'.method \in {"PUT", "PATCH", "DELETE"}
          /\ LET slug == request'.path[1]
                 posts == db["blog_posts"]
             IN  ~( /\ slug \in DOMAIN posts
                    /\ \/ posts[slug].author = request'.user
                       \/ Elevated(request'.user) ) )
        => (db' = db /\ response'.status \in {401, 403, 404}) ]_vars

\* C3, its case: 'uma', who has role 'user', has sent a PATCH to a published
\* post written by 'ann' and was answered 403.
C3_StrangerRefused ==
    /\ request.user = "uma"
    /\ request.method = "PATCH"
    /\ request.view = "BlogPostDetailView"
    /\ response.status = 403
    /\ HelloWorld \in DOMAIN db["blog_posts"]
    /\ db["blog_posts"][HelloWorld].author = "ann"
    /\ db["blog_posts"][HelloWorld].status = "published"

(* C4: POST /blogs/ by an authenticated caller without admin/editor role  *)
(* is refused and creates no post.  The refusal is 403; the formula also   *)
(* lets a payload without title be refused with 400, so that only a        *)
(* created post refutes it.                                                *)
C4_BlogCreateNeedsEditor ==
    [][ ( /\ request'.view = "BlogPostListView"
          /\ request'.method = "POST"
          /\ is_authenticated(request'.user)
          /\ ~Elevated(request'.user) )
        => (response'.status \in {400, 403} /\ db' = db) ]_vars

\* C4, the state that refutes it: 'uma', of role 'user', has POSTed a blog
\* post, was answered 201 and is its author.
C4_UserCreatedPost ==
    /\ request.user = "uma"
    /\ request.method = "POST"
    /\ request.view = "BlogPostListView"
    /\ response.status = 201
    /\ HelloWorld \in DOMAIN db["blog_posts"]
    /\ db["blog_posts"][HelloWorld].author = "uma"

(* C5: a blog post whose status is not 'published' is in no answer of the *)
(* public list, of the featured posts or of the recent posts, whoever      *)
(* asks; and a GET of its slug is answered 404 to an anonymous caller and  *)
(* to an authenticated caller without admin/editor role, 200 to an         *)
(* admin/editor.                                                           *)
C5_UnpublishedPostHidden ==
    /\ \A post \in Rows(db["blog_posts"]) :
          post.status # "published" =>
            /\ post \notin featured_posts_view(db)
            /\ post \notin recent_posts_view(db)
            /\ \A user \in Callers :
                  post \notin Rows(get_queryset(BlogPostListView, user))
    /\ ( /\ request.method = "GET"
         /\ request.view \in {"BlogPostListView", "featured_posts_view",
                              "recent_posts_view"}
         /\ response.status = 200 )
       => \A post \in response.body.results : post.status = "published"
    /\ ( /\ request.method = "GET"
         /\ request.view = "BlogPostDetailView"
         /\ request.path[1] \in DOMAIN db["blog_posts"]
         /\ db["blog_posts"][request.path[1]].status # "published" )
       => response.status = IF Elevated(request.user) THEN 200 ELSE 404

\* C5, its case: an anonymous GET of a stored draft was answered 404.
C5_DraftNotFound ==
    /\ request.user = AnonymousUser
    /\ request.method = "GET"
    /\ request.view = "BlogPostDetailView"
    /\ response.status = 404
    /\ HelloWorld \in DOMAIN db["blog_posts"]
    /\ request.path = <<HelloWorld>>
    /\ db["blog_posts"][HelloWorld].status = "draft"

PublicListViews ==
    {"ProductListView", "PortfolioProjectListView", "CourseListView",
     "JobPositionListView"}

PublicDetailViews ==
    {"ProductDetailView", "PortfolioProjectDetailView", "CourseDetailView",
     "JobPositionDetailView"}

\* Statuses that are not the entity's public value under any reading.
HiddenStatuses(view) ==
    IF view \in {"JobPositionListView", "JobPositionDetailView"}
    THEN {"closed", "paused", "filled"}
    ELSE {"archived"}

(* C6: a product, portfolio project, course or job position whose status  *)
(* is not the entity's public value (archived; for a position closed,      *)
(* paused or filled) is in no answer to an anonymous caller, neither of    *)
(* the list endpoint nor of a GET of its slug.                             *)
C6_NonPublicHiddenFromAnonymous ==
    ( /\ request.user = AnonymousUser
      /\ request.method = "GET"
      /\ response.status = 200 )
    => /\ request.view \in PublicListViews =>
            \A row \in response.body.results :
                row.status \notin HiddenStatuses(request.view)
       /\ request.view \in PublicDetailViews =>
            response.body.status \notin HiddenStatuses(request.view)

\* C6, the state that refutes it: an anonymous GET of an archived product's
\* slug was answered 200 with the product.
C6_ArchivedProductServed ==
    /\ request.user = AnonymousUser
    /\ request.method = "GET"
    /\ request.view = "ProductDetailView"
    /\ response.status = 200
    /\ response.body.status = "archived"

OpenPosition(database, path) ==
    /\ path[2] \in DOMAIN database["job_positions"]
    /\ database["job_positions"][path[2]].status = "open"

\* The request lacks a field its submission endpoint requires.
LacksRequired(req) ==
    /\ req.view \in SubmissionViews
    /\ req.method = "POST"
    /\ RequiredFields(req.view) \ DOMAIN req.data # {}

\* The answer is 400 and names every required field the request lacks.
NamesMissing(req, resp) ==
    /\ resp.status = 400
    /\ RequiredFields(req.view) \ DOMAIN req.data \subseteq DOMAIN resp.body

SameCount(req, before, after) ==
    Cardinality(DOMAIN after[SubmissionTable(req.view)])
        = Cardinality(DOMAIN before[SubmissionTable(req.view)])

(* C8 as the specification states it: on every submission endpoint a      *)
(* payload that lacks a required field is answered 400 with the field      *)
(* named, and the number of stored records of the type is unchanged.       *)
C8_MissingFieldIs400 ==
    [][ LacksRequired(request')
        => (NamesMissing(request', response') /\ SameCount(request', db, db')) ]_vars

(* C8 as the code has it: a payload that lacks a required field is         *)
(* answered 400 with the field named on the contact, newsletter and        *)
(* testimonial endpoints, and on the job application endpoint when the     *)
(* position of the URL exists and is open; an application to a position    *)
(* that is missing or not open is answered 404 whatever its payload.  The  *)
(* number of stored records of the type is unchanged in every case.        *)
C8_MissingFieldIs400OrNoPosition ==
    [][ LacksRequired(request')
        => /\ SameCount(request', db, db')
           /\ IF request'.view = "JobApplicationCreateView"
                 /\ ~OpenPosition(db, request'.path)
              THEN response'.status = 404
              ELSE NamesMissing(request', response') ]_vars

\* C8, its case: an application without email to an open position was
\* answered 400 with email named.
C8_ApplicationWithoutEmail ==
    /\ request.view = "JobApplicationCreateView"
    /\ "email" \notin DOMAIN request.data
    /\ response.status = 400
    /\ "email" \in DOMAIN response.body

InitialState(view, row) ==
    CASE view = "ContactCreateView" -> row.status = "new"
      [] view = "JobApplicationCreateView" -> row.status = "submitted"
      [] view = "TestimonialSubmissionCreateView" -> ~row.is_approved
      [] view = "NewsletterSubscribeView" -> row.is_active

IdFields == {"id", "application_id", "submission_id"}

(* C9: on every submission endpoint a submission that is accepted (201)   *)
(* stores exactly one new record, in its declared initial state (contact   *)
(* 'new', application 'submitted', testimonial submission not approved,    *)
(* subscription active), and the answer holds that record's numeric id.    *)
C9_SubmissionStoredAndIdentified ==
    [][ (request'.view \in SubmissionViews /\ response'.status = 201)
        => LET table == SubmissionTable(request'.view)
           IN  \E pk \in DOMAIN db'[table] \ DOMAIN db[table] :
                 /\ db'[table] = Put(db[table], pk, db'[table][pk])
                 /\ InitialState(request'.view, db'[table][pk])
                 /\ \E f \in IdFields \cap DOMAIN response'.body :
                        response'.body[f] = pk ]_vars

\* C9, the state that refutes it: a subscription was accepted and the answer
\* holds no identifier of the stored record.
C9_SubscriptionWithoutId ==
    /\ request.view = "NewsletterSubscribeView"
    /\ response.status = 201
    /\ IdFields \cap DOMAIN response.body = {}
    /\ db["newsletter_subscriptions"] # EmptyTable

(* C10: when a notification mail of a contact, newsletter, application or *)
(* testimonial submission fails or raises, the request is still answered   *)
(* 201 and the record it stored is still stored; and no notification of    *)
(* any record is attempted more than once.                                 *)
C10_NotificationFailureIsSwallowed ==
    /\ ( /\ request.view \in SubmissionViews
         /\ \E i \in DOMAIN mail : mail[i] \in {"failed", "raised"} )
       => LET table == SubmissionTable(request.view)
          IN  /\ response.status = 201
              /\ last_pk[table] \in DOMAIN db[table]
    /\ \A key \in DOMAIN mail_attempts : mail_attempts[key] <= 1

\* C10, its case: the notification of a contact submission raised, the answer
\* was 201 and the contact is stored.
C10_RaisedAndAccepted ==
    /\ request.view = "ContactCreateView"
    /\ mail = <<"raised">>
    /\ response.status = 201
    /\ response.body.id \in DOMAIN db["contacts"]
    /\ mail_attempts[<<"contacts", response.body.id, "notification">>] = 1

-----------------------------------------------------------------------------
(* Submissions after their creation.                                       *)

AdminDetailViews == {"ContactDetailView", "JobApplicationDetailView"}

\* The fields of a stored submission that its submitter or the request of the
\* submission provided.
SubmitterFields(table) ==
    IF table = "contacts"
    THEN {"name", "email", "inquiry_type", "message", "ip_address", "user_agent"}
    ELSE {"first_name", "last_name", "email", "cover_letter", "resume",
          "years_of_experience", "ip_address", "user_agent"}

(* C11: in every step, each contact and each job application that exists  *)
(* before and after keeps the values of its submitter-provided fields, so  *)
(* they equal their values at creation; and its status or admin_notes      *)
(* differ only when the step is a PUT or PATCH on the submission's detail  *)
(* view by a caller with admin/editor role.                                *)
C11_SubmitterFieldsImmutable ==
    [][ \A table \in {"contacts", "job_applications"} :
          \A pk \in DOMAIN db[table] \cap DOMAIN db'[table] :
            /\ \A f \in SubmitterFields(table) :
                  db'[table][pk][f] = db[table][pk][f]
            /\ ( \/ db'[table][pk].status # db[table][pk].status
                 \/ db'[table][pk].admin_notes # db[table][pk].admin_notes )
               => /\ request'.view \in AdminDetailViews
                  /\ request'.method \in {"PUT", "PATCH"}
                  /\ Elevated(request'.user) ]_vars

\* C11, its case: an editor's update that carried another email was accepted,
\* the note is stored and the contact's email is the submitter's.
C11_ReadOnlyEmailKept ==
    /\ request.view = "ContactDetailView"
    /\ request.user = "ed"
    /\ "email" \in DOMAIN request.data
    /\ response.status = 200
    /\ db["contacts"][1].admin_notes = request.data.admin_notes
    /\ db["contacts"][1].email # request.data.email

SubmissionTables ==
    {"contacts", "newsletter_subscriptions", "job_applications",
     "testimonial_submissions"}

(* C12: no step removes a stored submission: every contact, newsletter    *)
(* subscription, job application and testimonial submission that exists    *)
(* before a request exists after it.                                       *)
C12_SubmissionsNeverRemoved ==
    [][ \A table \in SubmissionTables :
            DOMAIN db[table] \subseteq DOMAIN db'[table] ]_vars

\* C12, the state that refutes it: a job position was deleted through the API
\* and the application that had been stored for it is gone.
C12_ApplicationsCascaded ==
    /\ request.view = "JobPositionDetailView"
    /\ request.method = "DELETE"
    /\ response.status = 204
    /\ last_pk["job_applications"] >= 1
    /\ db["job_applications"] = EmptyTable

-----------------------------------------------------------------------------
(* Repeated subscriptions.                                                 *)

(* C13: a subscribe request for an address that has an active             *)
(* subscription is answered with the success response (201) and adds no    *)
(* record; for an address whose subscription is inactive it is answered    *)
(* 201 and the existing record is active again with unsubscribed_at        *)
(* cleared; and after every subscribe request at most one record holds     *)
(* the address.                                                            *)
C13_ResubscribeIsIdempotent ==
    [][ ( /\ request'.view = "NewsletterSubscribeView"
          /\ "email" \in DOMAIN request'.data )
        => LET before == db["newsletter_subscriptions"]
               after == db'["newsletter_subscriptions"]
               held == subscriptions(before, request'.data.email)
           IN  /\ Cardinality(subscriptions(after, request'.data.email)) <= 1
               /\ held # {}
                  => /\ response'.status = 201
                     /\ DOMAIN after = DOMAIN before
                     /\ \A k \in held :
                           /\ after[k].is_active
                           /\ after[k].unsubscribed_at = "null" ]_vars

\* C13, the state that refutes it: a subscribe request for an address that is
\* actively subscribed was answered 400 with the email field flagged.
C13_ActiveAddressRejected ==
    /\ request.view = "NewsletterSubscribeView"
    /\ "email" \in DOMAIN request.data
    /\ response.status = 400
    /\ "email" \in DOMAIN response.body
    /\ \E k \in subscriptions(db["newsletter_subscriptions"], request.data.email) :
          db["newsletter_subscriptions"][k].is_active

-----------------------------------------------------------------------------
(* Minimum lengths.                                                        *)

\* The number of characters of a text from its first to its last character
\* that is not a space.
TrimmedLen(text) ==
    LET at == {i \in DOMAIN text : text[i] # " "}
    IN  IF at = {} THEN 0
        ELSE (CHOOSE i \in at : \A j \in at : j <= i)
             - (CHOOSE i \in at : \A j \in at : i <= j) + 1

\* The request was accepted: 201, an identifier in the body, one more record.
Accepted(table) ==
    /\ response'.status = 201
    /\ IdFields \cap DOMAIN response'.body # {}
    /\ Cardinality(DOMAIN db'[table]) = Cardinality(DOMAIN db[table]) + 1

\* The request was rejected for one field: 400, the field flagged, no write.
Rejected(field) ==
    /\ response'.status = 400
    /\ field \in DOMAIN response'.body
    /\ db' = db

(* C14: a contact submission that carries every required field is         *)
(* accepted (201 with id, one record more) exactly when its message has at *)
(* least 10 characters once leading and trailing whitespace is removed,    *)
(* and a testimonial submission exactly when its content has at least 20;  *)
(* a shorter value is answered 400 with message / content flagged and      *)
(* nothing is stored.                                                      *)
C14_MinimumLengthAfterTrim ==
    [][ /\ ( /\ request'.view = "ContactCreateView"
             /\ RequiredFields("ContactCreateView") \subseteq DOMAIN request'.data )
           => IF TrimmedLen(request'.data.message) >= 10
              THEN Accepted("contacts") ELSE Rejected("message")
        /\ ( /\ request'.view = "TestimonialSubmissionCreateView"
             /\ RequiredFields("TestimonialSubmissionCreateView")
                    \subseteq DOMAIN request'.data )
           => IF TrimmedLen(request'.data.content) >= 20
              THEN Accepted("testimonial_submissions") ELSE Rejected("content")
      ]_vars

\* C14, its case: a message of ten characters of which one is a leading space
\* was answered 400 with the message flagged.
C14_PaddedMessageRejected ==
    /\ request.view = "ContactCreateView"
    /\ "message" \in DOMAIN request.data
    /\ Len(request.data.message) = 10
    /\ Head(request.data.message) = " "
    /\ response.status = 400
    /\ "message" \in DOMAIN response.body

-----------------------------------------------------------------------------
(* Slug assignment, under SlugSpec.                                        *)

\* The slug Django's slugify gives each title of SlugTitles: the two slugs
\* portfolio/tests.py asserts, and the others by the same rule.
SlugOfTitle(title) ==
    CASE title = "Hello World!!" -> "hello-world"
      [] title = "Hello World" -> "hello-world"
      [] title = "Another Test Project" -> "another-test-project"
      [] title = "!!!" -> ""
      [] title = "Hello--World  2" -> "hello-world-2"
      [] title = "snake_case" -> "snake_case"

\* The slug of a job position with each of those titles.
SlugOfPosition(title) ==
    CASE title = "Hello World!!" -> "hello-world-engineering"
      [] title = "Hello World" -> "hello-world-engineering"
      [] title = "Another Test Project" -> "another-test-project-engineering"
      [] title = "!!!" -> "engineering"
      [] title = "Hello--World  2" -> "hello-world-2-engineering"
      [] title = "snake_case" -> "snake_case-engineering"

\* The keys of the rows a step inserts into the content table of the app.
Inserted == DOMAIN db'[ContentTable(app)] \ DOMAIN db[ContentTable(app)]

\* The title a request carries.
TitleOf(req) == req.data[ContentView(app).model.title_field]

FirstSave == request'.method = "POST" /\ response'.status = 201

\* C15, as stated: a content entity saved for the first time, job positions
\* included, has the slug that its title alone derives.
C15_SlugFromTitleAlone ==
    [][FirstSave =>
        /\ Inserted # {}
        /\ \A k \in Inserted :
              db'[ContentTable(app)][k].slug = SlugOfTitle(TitleOf(request'))]_vars

\* C15, amended: a blog post, product, portfolio project or course saved for
\* the first time has the slug of its title (lowercased, characters other than
\* letters, digits, underscores, spaces and hyphens removed, runs of spaces and
\* hyphens collapsed to one hyphen, leading and trailing hyphens and
\* underscores stripped); a job position has the slug of its title and its
\* department joined by a hyphen.
C15_SlugFromTitleAndDepartment ==
    [][FirstSave =>
        /\ Inserted # {}
        /\ \A k \in Inserted :
              db'[ContentTable(app)][k].slug =
                  IF app = "careers" THEN SlugOfPosition(TitleOf(request'))
                  ELSE SlugOfTitle(TitleOf(request'))]_vars

\* C15 witness: a post titled 'Hello World!!' is stored under 'hello-world'.
C15_HelloWorldStored ==
    /\ app = "blogs"
    /\ request.method = "POST"
    /\ response.status = 201
    /\ request.data = [title |-> "Hello World!!"]
    /\ "hello-world" \in DOMAIN db.blog_posts
    /\ db.blog_posts["hello-world"].slug = "hello-world"

\* The slug the title of a request derives in the app.
DerivedSlug(req) ==
    IF app = "careers" THEN SlugOfPosition(TitleOf(req))
    ELSE SlugOfTitle(TitleOf(req))

\* A create whose derived slug is the slug of a stored entity of the type.
DuplicateCreate ==
    /\ request'.method = "POST"
    /\ response'.status \notin {401, 403}
    /\ DerivedSlug(request') \in DOMAIN db[ContentTable(app)]

\* C16: a create whose title derives the slug of an existing entity of the
\* same type stores nothing: the table has the same rows under the same slugs
\* as before, the existing row included.
C16_DuplicateSlugNotPersisted ==
    [][DuplicateCreate => db' = db]_vars

\* C16 witness: 'Hello World' was posted while the project 'Hello World!!'
\* held the slug 'hello-world', and that project is all the table holds.
C16_SecondHelloWorldNotStored ==
    /\ app = "portfolio"
    /\ request.method = "POST"
    /\ request.data = [title |-> "Hello World"]
    /\ DOMAIN db.portfolio_projects = {"hello-world"}
    /\ db.portfolio_projects["hello-world"].title = "Hello World!!"

\* C17, as stated: a create rejected for a duplicate slug is answered 400 with
\* a field-level error.
C17_DuplicateSlugIs400 ==
    [][DuplicateCreate =>
        /\ response'.status = 400
        /\ DOMAIN response'.body # {}]_vars

\* C17 witness: the second 'Hello World!!' product was answered 500.
C17_DuplicateSlugIs500 ==
    /\ app = "products"
    /\ request.method = "POST"
    /\ request.data = [name |-> "Hello World!!"]
    /\ DOMAIN db.products = {"hello-world"}
    /\ response = IntegrityError

\* C18: every stored content entity has the slug of its first save (the slug
\* it is stored under), whatever titles the updates gave it.
C18_SlugImmutable ==
    \A k \in DOMAIN db[ContentTable(app)] : db[ContentTable(app)][k].slug = k

\* C18 witness: the course first saved as 'hello-world' was retitled '!!!',
\* a title with no letter or digit, and the update was accepted.
C18_RetitledWithoutLetters ==
    /\ app = "training"
    /\ request.method \in {"PUT", "PATCH"}
    /\ response.status = 200
    /\ "hello-world" \in DOMAIN db.training_courses
    /\ db.training_courses["hello-world"].title = "!!!"

-----------------------------------------------------------------------------
(* Concurrent requests, under RaceSpec.                                    *)

BothDone == \A w \in Workers : inflight[w].pc = "done"

\* The unique value the request of a worker would store: the derived slug
\* of a create, the address of a subscribe.
UniqueKey(w) ==
    IF inflight[w].kind = "create" THEN DerivedSlug(inflight[w])
    ELSE inflight[w].data.email

\* The two requests are creates, or subscribes with an address, that would
\* store the same unique value.
Colliding ==
    /\ \A w \in Workers :
          \/ inflight[w].kind = "create"
          \/ inflight[w].kind = "subscribe" /\ inflight[w].data # NoData
    /\ UniqueKey(1) = UniqueKey(2)

\* The rows that hold the unique value of the two colliding requests.
Holders ==
    IF app = "newsletter"
    THEN subscriptions(db.newsletter_subscriptions, UniqueKey(1))
    ELSE {k \in DOMAIN db[ContentTable(app)] : k = UniqueKey(1)}

\* C19, as stated: once two concurrent colliding creates, or two concurrent
\* subscribes for one new address, have both been answered, one row holds the
\* slug or address, one request was answered 201 and the other 400.
C19_OneSucceedsOneFailsValidation ==
    (BothDone /\ Colliding) =>
        /\ Cardinality(Holders) = 1
        /\ {inflight[w].response.status : w \in Workers} = {201, 400}

\* C19 witness: both subscribes for one new address were validated before
\* either was saved, both were answered 201, and one row holds the address.
C19_BothSubscribesAccepted ==
    /\ app = "newsletter"
    /\ BothDone
    /\ Colliding
    /\ \A w \in Workers : inflight[w].response.status = 201
    /\ Cardinality(Holders) = 1

GetPath == <<PublishedPost.slug>>

\* The workers that were given the published post.
Served ==
    {w \in Workers : inflight[w].kind = "get" /\ inflight[w].path = GetPath}

Written == {w \in Served : inflight[w].pc = "done"}

views_count == db.blog_posts[PublishedPost.slug].views_count

\* C20: a GET of a post that runs alone leaves views_count one higher; each
\* GET writes the count it read plus one, so two GETs that both read the
\* count before either wrote leave it one higher, not two, and two GETs
\* leave it one or two higher in every interleaving.
C20_ViewsCountReadThenWritten ==
    /\ (Cardinality(Served) = 1 /\ Written = Served) =>
            views_count = PublishedPost.views_count + 1
    /\ (Cardinality(Written) = 2) =>
            views_count \in {PublishedPost.views_count + 1,
                             PublishedPost.views_count + 2}
    /\ (Cardinality(Written) = 2
          /\ \A w \in Written : inflight[w].seen = PublishedPost.views_count) =>
            views_count = PublishedPost.views_count + 1

\* C20 witness: two GETs of the post were both answered 200 and both wrote,
\* and views_count is one higher than before them.
C20_LostUpdate ==
    /\ app = "blogs"
    /\ Cardinality(Written) = 2
    /\ \A w \in Written : inflight[w].response.status = 200
    /\ views_count = PublishedPost.views_count + 1

-----------------------------------------------------------------------------
(* Accounts and tokens, under AuthSpec.                                    *)

\* The role an account was created with: the role of a seeded account, and
\* 'user' for an account that registered.
RoleAtCreation(email) ==
    IF email \in DOMAIN SeedUsers THEN SeedUsers[email].role ELSE "user"

\* C21: every account has the role it was created with, and an account that
\* registered has the role 'user', whatever role the payloads of the
\* registration and of the profile updates carried.
C21_RoleNeverSelfAssigned ==
    \A email \in DOMAIN db.users : db.users[email].role = RoleAtCreation(email)

\* C21 witness: the registered account sent PATCH /auth/profile/ with role
\* 'admin', was answered 200, and is still a 'user'.
C21_RegisteredPatchedRole ==
    /\ request.view = "UserProfileView"
    /\ request.method = "PATCH"
    /\ request.user = NewEmail
    /\ "role" \in DOMAIN request.data
    /\ request.data.role = "admin"
    /\ response.status = 200
    /\ db.users[NewEmail].role = "user"

LogoutAccepted ==
    /\ request'.view = "UserLogoutView"
    /\ response'.status = 200

\* The refresh tokens issued to an account.
TokensOf(user) ==
    {t \in DOMAIN db.outstanding_tokens : db.outstanding_tokens[t].user = user}

-----------------------------------------------------------------------------
(* URL dispatch of the fixed paths.                                        *)

\* The fixed paths of an app that share a prefix with its slug route, and the
\* view the URLconf names for each.
FixedPathViews(a) ==
    CASE a = "blogs" ->
            {<<<<"featured">>, "featured_posts_view">>,
             <<<<"recent">>, "recent_posts_view">>,
             <<<<"categories">>, "CategoryListView">>,
             <<<<"tags">>, "TagListView">>}
      [] a = "portfolio" ->
            {<<<<"featured">>, "featured_projects_view">>,
             <<<<"search">>, "search_projects_view">>,
             <<<<"technologies">>, "project_technologies_view">>,
             <<<<"stats">>, "portfolio_stats_view">>}
      [] a = "products" -> {<<<<"featured">>, "featured_products_view">>}
      [] a = "training" ->
            {<<<<"courses", "featured">>, "featured_courses_view">>,
             <<<<"courses", "stats">>, "course_stats_view">>}
      [] a = "careers" -> {<<<<"positions", "open">>, "open_positions_view">>}
      [] OTHER -> {}

\* The fixed paths among them that the requests of the model address and
\* that are open to anonymous callers.
PublicFixedPaths == {<<"featured">>, <<"recent">>, <<"positions", "open">>}

\* C23, as stated: each fixed path of the app resolves to its own view, and
\* an anonymous GET of a public one is answered 200.
C23_FixedPathsReachOwnView ==
    /\ \A pv \in FixedPathViews(app) :
            resolve(urlpatterns(app), pv[1]).view = pv[2]
    /\ (/\ request.method = "GET"
        /\ request.user = AnonymousUser
        /\ request.path \in PublicFixedPaths) => response.status = 200

\* C23 witness: GET /blogs/featured/ was handled by the detail view of the
\* blog, with 'featured' as the slug, and answered 404.
C23_FeaturedTakenForSlug ==
    /\ app = "blogs"
    /\ request.method = "GET"
    /\ request.path = <<"featured">>
    /\ request.view = "BlogPostDetailView"
    /\ response.status = 404

-----------------------------------------------------------------------------
(* Job applications and the position of the URL.                           *)

AppliedFor == DOMAIN db'.job_applications \ DOMAIN db.job_applications

\* C24: an application is stored only for a position that exists with status
\* 'open', and references the position of the URL; for any other position the
\* request is answered 404, stores nothing and sends no mail.
C24_ApplicationNeedsOpenPosition ==
    [][request'.view = "JobApplicationCreateView" =>
        IF OpenPosition(db, request'.path)
        THEN \A k \in AppliedFor :
                db'.job_applications[k].position = request'.path[2]
        ELSE /\ response'.status = 404
             /\ db' = db
             /\ mail' = <<>>
             /\ mail_attempts' = mail_attempts]_vars

\* C24 witness: a complete application to a closed position was answered 404.
C24_ClosedPositionRefused ==
    /\ request.view = "JobApplicationCreateView"
    /\ request.path[2] \in DOMAIN db.job_positions
    /\ db.job_positions[request.path[2]].status = "closed"
    /\ RequiredFields(request.view) \subseteq DOMAIN request.data
    /\ response.status = 404
    /\ db.job_applications = EmptyTable

-----------------------------------------------------------------------------
(* The author of a blog post.                                              *)

\* C25, as stated: a PUT, PATCH or DELETE on /blogs/{slug}/ sent by the
\* author of the post, who holds no admin/editor role, is not refused,
\* whatever the status of the post.
C25_AuthorCanWriteOwnPost ==
    [][(/\ request'.view = "BlogPostDetailView"
        /\ request'.method \in {"PUT", "PATCH", "DELETE"}
        /\ request'.path[1] \in DOMAIN db.blog_posts
        /\ db.blog_posts[request'.path[1]].author = request'.user
        /\ ~Elevated(request'.user))
       => response'.status \notin {401, 403, 404}]_vars

\* C25 witness: 'uma', who has role 'user', sent a PATCH to her own draft and
\* was answered 404; the draft is as it was.
C25_AuthorsDraftNotFound ==
    /\ request.view = "BlogPostDetailView"
    /\ request.method = "PATCH"
    /\ request.user = "uma"
    /\ request.path[1] \in DOMAIN db.blog_posts
    /\ db.blog_posts[request.path[1]].author = "uma"
    /\ db.blog_posts[request.path[1]].status = "draft"
    /\ response.status = 404

-----------------------------------------------------------------------------
(* The publication time of a blog post.  timezone.now() is an input of     *)
(* every request: the time the request is served at.                       *)

Times == {"t1", "t2"}

PublishCallers == {"ann", "uma"}

PublishPayloads(method) ==
    IF method = "PATCH"
    THEN {[status |-> s] : s \in BlogPost.choices}
    ELSE {[title |-> t, status |-> s] : t \in Titles, s \in BlogPost.choices}

PublishRequest(user, method, path, data, now) ==
    Request(user, method, path, data) @@ [at |-> now]

\* A faulty save: a published post takes the time of every save.
restamp(instance, now) ==
    LET named == IF instance.slug = ""
                 THEN [instance EXCEPT !.slug = slugify(instance.title)]
                 ELSE instance
    IN  IF named.status = "published"
        THEN [named EXCEPT !.published_at = now]
        ELSE named

\* BlogPost.save: the slug is derived when there is none; a post saved with
\* status 'published' and no published_at takes the current time.
BlogPost_save(instance, now) ==
    LET named == IF instance.slug = ""
                 THEN [instance EXCEPT !.slug = slugify(instance.title)]
                 ELSE instance
    IN  IF named.status = "published" /\ named.published_at = "null"
        THEN [named EXCEPT !.published_at = now]
        ELSE named

\* save(update_fields=...): save() runs on the instance in memory and only
\* the named columns of the stored row are written.
save_update_fields(stored, instance, update_fields, now) ==
    [f \in DOMAIN stored |->
        IF f \in update_fields THEN BlogPost_save(instance, now)[f] ELSE stored[f]]

\* POST /blogs/: BlogPostCreateUpdateSerializer.create.
BlogPostListView_create(user, data, now) ==
    LET view == BlogPostListView
        table == db.blog_posts
        instance == BlogPost_save(new_instance(BlogPost, data, user), now)
    IN  /\ request' = PublishRequest(user, "POST", <<>>, data, now)
        /\ IF ~check_permissions(view, "POST", user)
           THEN /\ response' = permission_denied(user)
                /\ UNCHANGED db
           ELSE IF errors(BlogPost, data, FALSE) # NoData
           THEN /\ response' = Response(400, errors(BlogPost, data, FALSE))
                /\ UNCHANGED db
           ELSE IF violates_unique(table, instance.slug)
           THEN /\ response' = IntegrityError
                /\ UNCHANGED db
           ELSE /\ db' = [db EXCEPT !.blog_posts = Put(table, instance.slug, instance)]
                /\ response' = Response(201, instance)
        /\ mail' = <<>>
        /\ UNCHANGED <<app, last_pk, mail_attempts>>

\* PUT or PATCH /blogs/{slug}/: BlogPostCreateUpdateSerializer.update sets
\* the validated fields on the instance and saves it.
BlogPostDetailView_update(user, method, slug, data, now) ==
    LET view == BlogPostDetailView
        queryset == get_queryset(view, user)
    IN  /\ request' = PublishRequest(user, method, <<slug>>, data, now)
        /\ IF ~check_permissions(view, method, user)
           THEN /\ response' = permission_denied(user)
                /\ UNCHANGED db
           ELSE IF slug \notin DOMAIN queryset
           THEN /\ response' = NotFound
                /\ UNCHANGED db
           ELSE IF ~check_object_permissions(view, method, user, queryset[slug])
           THEN /\ response' = permission_denied(user)
                /\ UNCHANGED db
           ELSE IF errors(BlogPost, data, method = "PATCH") # NoData
           THEN /\ response' =
                      Response(400, errors(BlogPost, data, method = "PATCH"))
                /\ UNCHANGED db
           ELSE LET instance == BlogPost_save(Override(queryset[slug], data), now)
                IN  /\ db' = [db EXCEPT !.blog_posts[slug] = instance]
                    /\ response' = Response(200, instance)
        /\ mail' = <<>>
        /\ UNCHANGED <<app, last_pk, mail_attempts>>

\* GET /blogs/{slug}/: on 200 increment_views adds one to views_count and
\* saves with update_fields=['views_count'].
BlogPostDetailView_get_at(user, slug, now) ==
    LET queryset == get_queryset(BlogPostDetailView, user)
    IN  /\ request' = PublishRequest(user, "GET", <<slug>>, NoData, now)
        /\ IF slug \notin DOMAIN queryset
           THEN /\ response' = NotFound
                /\ UNCHANGED db
           ELSE /\ queryset[slug].views_count < MaxViews
                /\ response' = Response(200, queryset[slug])
                /\ db' = [db EXCEPT !.blog_posts[slug] =
                            save_update_fields(@,
                                [@ EXCEPT !.views_count = @ + 1],
                                {"views_count"}, now)]
        /\ mail' = <<>>
        /\ UNCHANGED <<app, last_pk, mail_attempts>>

PublishInit == Init /\ app = "blogs"

PublishCreate ==
    \E user \in PublishCallers, data \in PublishPayloads("POST"), now \in Times :
        /\ BlogPostListView_create(user, data, now)
        /\ UNCHANGED inflight

PublishUpdate ==
    \E user \in PublishCallers, method \in {"PUT", "PATCH"}, now \in Times :
        \E data \in PublishPayloads(method) :
            /\ BlogPostDetailView_update(user, method, HelloWorld, data, now)
            /\ UNCHANGED inflight

PublishRetrieve ==
    \E user \in PublishCallers \cup {AnonymousUser}, now \in Times :
        /\ BlogPostDetailView_get_at(user, HelloWorld, now)
        /\ UNCHANGED inflight

PublishDestroy ==
    /\ destroy("ann", <<HelloWorld>>)
    /\ UNCHANGED inflight

PublishNext == PublishCreate \/ PublishUpdate \/ PublishRetrieve \/ PublishDestroy

PublishSpec == PublishInit /\ [][PublishNext]_vars

-----------------------------------------------------------------------------
(* The newsletter with its admin actions.                                  *)

AdminRequest(user, action, selected) ==
    [user |-> user, method |-> "POST", path |-> <<"admin">>, view |-> action,
     data |-> [selected |-> selected]]

\* NewsletterSubscriptionAdmin.activate_subscriptions: resubscribe() on each
\* selected row.
activate_subscriptions(user, selected) ==
    /\ request' = AdminRequest(user, "activate_subscriptions", selected)
    /\ db' = [db EXCEPT !["newsletter_subscriptions"] =
                [k \in DOMAIN @ |->
                    IF k \in selected THEN resubscribe(@[k]) ELSE @[k]]]
    /\ response' = Response(200, [message |-> "Activated subscriptions"])
    /\ mail' = <<>>
    /\ UNCHANGED <<app, last_pk, mail_attempts>>

\* NewsletterSubscriptionAdmin.deactivate_subscriptions: unsubscribe() on
\* each selected row.
deactivate_subscriptions(user, selected) ==
    /\ request' = AdminRequest(user, "deactivate_subscriptions", selected)
    /\ db' = [db EXCEPT !["newsletter_subscriptions"] =
                [k \in DOMAIN @ |->
                    IF k \in selected THEN unsubscribe(@[k]) ELSE @[k]]]
    /\ response' = Response(200, [message |-> "Deactivated subscriptions"])
    /\ mail' = <<>>
    /\ UNCHANGED <<app, last_pk, mail_attempts>>

NewsletterInit == Init /\ app = "newsletter"

AdminActivate ==
    \E selected \in SUBSET DOMAIN db["newsletter_subscriptions"] :
        /\ selected # {}
        /\ activate_subscriptions("ann", selected)
        /\ UNCHANGED inflight

AdminDeactivate ==
    \E selected \in SUBSET DOMAIN db["newsletter_subscriptions"] :
        /\ selected # {}
        /\ deactivate_subscriptions("ann", selected)
        /\ UNCHANGED inflight

NewsletterUnsubscribe ==
    /\ Unsubscribe
    /\ \A key \in DOMAIN mail_attempts' : mail_attempts'[key] <= MaxMail

NewsletterNext ==
    Subscribe \/ NewsletterUnsubscribe \/ AdminActivate \/ AdminDeactivate

NewsletterSpec == NewsletterInit /\ [][NewsletterNext]_vars

\* C27: in every state reached by subscribing, unsubscribing, subscribing
\* again and the admin actions that activate and deactivate subscriptions,
\* a subscription is active exactly when its unsubscribed_at is null.
C27_ActiveIffNotUnsubscribed ==
    \A k \in DOMAIN db["newsletter_subscriptions"] :
        db["newsletter_subscriptions"][k].is_active
            <=> db["newsletter_subscriptions"][k].unsubscribed_at = "null"

\* C27 witness: the admin action has activated a subscription that had been
\* unsubscribed through the API; it is active and its unsubscribed_at is null
\* again.
C27_AdminReactivatedUnsubscribed ==
    /\ request.view = "activate_subscriptions"
    /\ \E k \in request.data.selected :
        /\ <<"newsletter_subscriptions", k, "unsubscribe_confirmation">>
                \in DOMAIN mail_attempts
        /\ db["newsletter_subscriptions"][k].is_active
        /\ db["newsletter_subscriptions"][k].unsubscribed_at = "null"

-----------------------------------------------------------------------------
(* The review of testimonial submissions in the admin site.  Two            *)
(* administrators may run actions at once; an action that loops over a      *)
(* queryset fetches the rows first and then handles them one by one.        *)

Submitted ==
    LET uma == [name |-> "Uma", email |-> "uma@x.io", title |-> "Engineer",
                content |-> Rep("y", MinContentLength), rating |-> 5]
        bob == [name |-> "Bob", email |-> "bob@x.io", title |-> "Designer",
                content |-> Rep("z", MinContentLength), rating |-> 4]
    IN  Put(Put(EmptyTable, 1, TestimonialSubmissionSerializer_create(uma, 1)),
            2, TestimonialSubmissionSerializer_create(bob, 2))

NoneFetched == [Idle EXCEPT !.seen = {}]

\* TestimonialSubmission.approve_and_create_testimonial: the test is on the
\* instance in memory; the result is the testimonial to create, or None.
approve_and_create_testimonial(submission, pk) ==
    IF ~submission.is_approved
    THEN [id |-> pk, name |-> submission.name, title |-> submission.title,
          content |-> submission.content, rating |-> submission.rating,
          testimonial_type |-> "customer", is_approved |-> TRUE]
    ELSE NoData

\* approve_and_create_testimonials, the fetch: the selected submissions that
\* are not approved, as the table has them now.
approve_and_create_testimonials_filter(w, selected) ==
    /\ inflight[w].pc = "idle"
    /\ inflight' = [inflight EXCEPT ![w] =
            [NoneFetched EXCEPT
                !.pc = "approve_and_create_testimonials", !.user = "ann",
                !.seen = {db["testimonial_submissions"][k] :
                            k \in {x \in selected :
                                ~db["testimonial_submissions"][x].is_approved}}]]
    /\ request' = AdminRequest("ann", "approve_and_create_testimonials", selected)
    /\ response' = Response(0, NoData)
    /\ mail' = <<>>
    /\ UNCHANGED <<app, db, last_pk, mail_attempts>>

\* approve_and_create_testimonials, one turn of the loop: the submission is
\* saved approved and its public testimonial created; after the last one the
\* action reports.
approve_and_create_testimonials_loop(w) ==
    /\ inflight[w].pc = "approve_and_create_testimonials"
    /\ IF inflight[w].seen = {}
       THEN /\ inflight' = [inflight EXCEPT ![w] = NoneFetched]
            /\ response' = Response(200, [message |-> "Approved testimonials"])
            /\ UNCHANGED <<db, last_pk>>
       ELSE \E submission \in inflight[w].seen :
            LET pk == last_pk["testimonials"] + 1
                testimonial == approve_and_create_testimonial(submission, pk)
            IN  /\ inflight' = [inflight EXCEPT ![w].seen = @ \ {submission}]
                /\ response' = response
                /\ IF testimonial = NoData
                   THEN UNCHANGED <<db, last_pk>>
                   ELSE /\ pk <= MaxTestimonials
                        /\ db' = [db EXCEPT
                              !["testimonial_submissions"][submission.id] =
                                    [submission EXCEPT !.is_approved = TRUE],
                              !["testimonials"] = Put(@, pk, testimonial)]
                        /\ last_pk' = [last_pk EXCEPT !["testimonials"] = pk]
    /\ UNCHANGED <<app, mail_attempts, request, mail>>

\* approve_submissions, reject_submissions: queryset.update(is_approved=...),
\* one UPDATE statement.
queryset_update(action, selected, value) ==
    /\ request' = AdminRequest("ann", action, selected)
    /\ db' = [db EXCEPT !["testimonial_submissions"] =
                [k \in DOMAIN @ |->
                    IF k \in selected THEN [@[k] EXCEPT !.is_approved = value]
                    ELSE @[k]]]
    /\ response' = Response(200, NoData)
    /\ mail' = <<>>
    /\ UNCHANGED <<app, last_pk, mail_attempts>>

Selections == SUBSET DOMAIN Submitted \ {{}}

ReviewInit ==
    /\ app = "testimonials"
    /\ db = [t \in Tables |->
                IF t = "testimonial_submissions" THEN Submitted ELSE EmptyTable]
    /\ last_pk = [t \in PkTables |->
                    IF t = "testimonial_submissions" THEN 2 ELSE 0]
    /\ mail_attempts = EmptyTable
    /\ request = AdminRequest("ann", "none", {})
    /\ mail = <<>>
    /\ response = Response(200, NoData)
    /\ inflight = [w \in Workers |-> NoneFetched]

ApproveAndCreateFetch ==
    \E w \in Workers, selected \in Selections :
        approve_and_create_testimonials_filter(w, selected)

ApproveAndCreateLoop ==
    \E w \in Workers : approve_and_create_testimonials_loop(w)

ApproveSubmissions ==
    /\ \E selected \in Selections :
            queryset_update("approve_submissions", selected, TRUE)
    /\ UNCHANGED inflight

RejectSubmissions ==
    /\ \E selected \in Selections :
            queryset_update("reject_submissions", selected, FALSE)
    /\ UNCHANGED inflight

ReviewNext ==
    \/ ApproveAndCreateFetch
    \/ ApproveAndCreateLoop
    \/ ApproveSubmissions
    \/ RejectSubmissions

ReviewSpec == ReviewInit /\ [][ReviewNext]_vars

\* The public testimonials made from a submission: Testimonial has no key to
\* the submission, the copy of its fields tells.
CreatedFrom(submission) ==
    {k \in DOMAIN db["testimonials"] :
        /\ db["testimonials"][k].name = submission.name
        /\ db["testimonials"][k].content = submission.content}

\* C28, as stated: whatever admin actions have run, in sequence or at once,
\* no testimonial submission has given rise to more than one public
\* testimonial.
C28_OneTestimonialPerSubmission ==
    \A k \in DOMAIN db["testimonial_submissions"] :
        Cardinality(CreatedFrom(db["testimonial_submissions"][k])) <= 1

\* C28 witness: no action is under way, and one submission has two public
\* testimonials.
C28_SubmissionPublishedTwice ==
    /\ \A w \in Workers : inflight[w].pc = "idle"
    /\ \E k \in DOMAIN db["testimonial_submissions"] :
        Cardinality(CreatedFrom(db["testimonial_submissions"][k])) = 2

-----------------------------------------------------------------------------
(* The moderation of public testimonials through the API.                  *)

featured_testimonials_view(database) ==
    {r \in Rows(database["testimonials"]) : r.is_approved /\ r.is_featured}

testimonials_by_type_view(database, testimonial_type) ==
    {r \in Rows(database["testimonials"]) :
        r.is_approved /\ r.testimonial_type = testimonial_type}

\* GET on the two function views of the testimonials.
testimonial_api_view(user, path) ==
    LET match == resolve(urlpatterns(app), path)
    IN  /\ match.view \in {"featured_testimonials_view", "testimonials_by_type_view"}
        /\ request' = [user |-> user, method |-> "GET", path |-> path,
                       view |-> match.view, data |-> NoData]
        /\ response' =
              IF match.view = "featured_testimonials_view"
              THEN Response(200, [results |-> featured_testimonials_view(db)])
              ELSE Response(200, [results |->
                        testimonials_by_type_view(db, match.kwarg)])
        /\ mail' = <<>>
        /\ UNCHANGED <<app, db, last_pk, mail_attempts>>

Moderators == {"ann", "ed", "uma", AnonymousUser}

TestimonialPayloads ==
    {[name |-> "Uma", is_approved |-> b, is_featured |-> TRUE,
      testimonial_type |-> "student"] : b \in BOOLEAN}

ModerationPayloads(method) ==
    IF method = "PATCH" THEN {[is_approved |-> b] : b \in BOOLEAN}
    ELSE {[name |-> "Uma", is_approved |-> b] : b \in BOOLEAN}

TestimonialViewPaths == {<<"featured">>, <<"type", "student">>, <<"type", "customer">>}

ModerationInit == Init /\ app = "testimonials"

ModerationCreate ==
    /\ \E data \in TestimonialPayloads : perform_create("ann", <<>>, data)
    /\ UNCHANGED inflight

ModerationUpdate ==
    /\ \E user \in Moderators, method \in {"PUT", "PATCH"} :
          \E data \in ModerationPayloads(method) :
              perform_update(user, <<FirstPk>>, method, data)
    /\ UNCHANGED inflight

ModerationRetrieve ==
    /\ \E user \in Moderators : retrieve(user, <<FirstPk>>)
    /\ UNCHANGED inflight

ModerationList ==
    /\ \E user \in Moderators : list(user, <<>>)
    /\ UNCHANGED inflight

ModerationDestroy ==
    /\ \E user \in Moderators : destroy(user, <<FirstPk>>)
    /\ UNCHANGED inflight

ModerationApiView ==
    /\ \E user \in Moderators, path \in TestimonialViewPaths :
          testimonial_api_view(user, path)
    /\ UNCHANGED inflight

ModerationNext ==
    \/ ModerationCreate
    \/ ModerationUpdate
    \/ ModerationRetrieve
    \/ ModerationList
    \/ ModerationDestroy
    \/ ModerationApiView

ModerationSpec == ModerationInit /\ [][ModerationNext]_vars

TestimonialListings ==
    {"TestimonialListView", "featured_testimonials_view",
     "testimonials_by_type_view"}

\* C29, as stated: once a testimonial is not approved, every GET, PUT, PATCH
\* and DELETE on /testimonials/{id}/ answers 404, whoever the caller is, the
\* list, featured and by-type answers do not contain it, and no request
\* changes or removes it.
C29_UnapprovedAnswers404 ==
    [][\A k \in DOMAIN db["testimonials"] :
          ~db["testimonials"][k].is_approved =>
            /\ k \in DOMAIN db'["testimonials"]
            /\ db'["testimonials"][k] = db["testimonials"][k]
            /\ (request'.view = "TestimonialDetailView"
                    /\ request'.path = <<ToString(k)>>)
                  => response'.status = 404
            /\ (request'.view \in TestimonialListings /\ request'.method = "GET")
                  => \A r \in response'.body.results : r.id # k
      ]_vars

\* C29, amended: the same, except that a PUT, PATCH or DELETE sent without
\* credentials is answered 401 before the testimonial is looked up.
C29_UnapprovedOutOfReach ==
    [][\A k \in DOMAIN db["testimonials"] :
          ~db["testimonials"][k].is_approved =>
            /\ k \in DOMAIN db'["testimonials"]
            /\ db'["testimonials"][k] = db["testimonials"][k]
            /\ (request'.view = "TestimonialDetailView"
                    /\ request'.path = <<ToString(k)>>)
                  => IF request'.method # "GET" /\ request'.user = AnonymousUser
                     THEN response'.status = 401
                     ELSE response'.status = 404
            /\ (request'.view \in TestimonialListings /\ request'.method = "GET")
                  => \A r \in response'.body.results : r.id # k
      ]_vars

\* C29 witness: the admin's PATCH that would approve the testimonial again
\* was answered 404, and the testimonial is still unapproved.
C29_ReapprovalNotFound ==
    /\ request.view = "TestimonialDetailView"
    /\ request.method = "PATCH"
    /\ request.user = "ann"
    /\ request.data = [is_approved |-> TRUE]
    /\ response.status = 404
    /\ \E k \in DOMAIN db["testimonials"] :
        /\ request.path = <<ToString(k)>>
        /\ ~db["testimonials"][k].is_approved

-----------------------------------------------------------------------------
(* Comments on blog posts: POST /blogs/{slug}/comments/.                   *)

\* Comment.parent is null=True: no parent is key 0, which no comment has.
NoParent == 0

DraftPost ==
    save(BlogPost, new_instance(BlogPost,
            [title |-> "snake_case", status |-> "draft"], "ann"))

HelloWorldPost ==
    save(BlogPost, new_instance(BlogPost,
            [title |-> "Hello World!!", status |-> "published"], "ann"))

CommentedPosts ==
    Put(Put(Put(EmptyTable, HelloWorldPost.slug, HelloWorldPost),
            PublishedPost.slug, PublishedPost),
        DraftPost.slug, DraftPost)

CommentPayloads ==
    {[content |-> "Nice"], NoData}
    \cup {[content |-> "Nice", parent |-> k] : k \in 1..MaxComments}

\* get_object_or_404(BlogPost, slug=post_slug, status='published')
published_post(posts, post_slug) ==
    /\ post_slug \in DOMAIN posts
    /\ posts[post_slug].status = "published"

\* CommentCreateSerializer: content is required; parent is a
\* PrimaryKeyRelatedField over Comment.objects.all() - the key of any stored
\* comment is valid.
CommentCreateSerializer_errors(comments, data) ==
    field_errors({"content"}, data,
                 IF "parent" \in DOMAIN data /\ data.parent \notin DOMAIN comments
                 THEN {"parent"} ELSE {})

\* CommentCreateSerializer.create: the author is the caller, the post is the
\* post of the URL.
CommentCreateSerializer_create(data, user, post, pk) ==
    [id |-> pk, post |-> post, author |-> user, content |-> data.content,
     parent |-> IF "parent" \in DOMAIN data THEN data.parent ELSE NoParent,
     is_approved |-> TRUE]

CommentListCreateView_post(user, post_slug, data) ==
    LET path == <<post_slug, "comments">>
        match == resolve(urlpatterns(app), path)
        comments == db["blog_comments"]
        pk == last_pk["blog_comments"] + 1
    IN  /\ match.view = "CommentListCreateView"
        /\ request' = [user |-> user, method |-> "POST", path |-> path,
                       view |-> match.view, data |-> data]
        /\ IF ~has_permission("IsAuthenticatedOrReadOnly", "POST", user)
           THEN /\ response' = permission_denied(user)
                /\ UNCHANGED <<db, last_pk>>
           ELSE IF ~published_post(db["blog_posts"], match.kwarg)
           THEN /\ response' = NotFound
                /\ UNCHANGED <<db, last_pk>>
           ELSE IF CommentCreateSerializer_errors(comments, data) # NoData
           THEN /\ response' =
                      Response(400, CommentCreateSerializer_errors(comments, data))
                /\ UNCHANGED <<db, last_pk>>
           ELSE LET comment == CommentCreateSerializer_create(
                                    data, user, match.kwarg, pk)
                IN  /\ pk <= MaxComments
                    /\ db' = [db EXCEPT !["blog_comments"] = Put(@, pk, comment)]
                    /\ last_pk' = [last_pk EXCEPT !["blog_comments"] = pk]
                    /\ response' = Response(201, comment)
        /\ mail' = <<>>
        /\ UNCHANGED <<app, mail_attempts>>

CommentInit ==
    /\ app = "blogs"
    /\ db = [blog_posts |-> CommentedPosts, blog_comments |-> EmptyTable]
    /\ last_pk = [blog_comments |-> 0]
    /\ mail_attempts = EmptyTable
    /\ request = [user |-> AnonymousUser, method |-> "OPTIONS", path |-> <<>>,
                  view |-> "none", data |-> NoData]
    /\ mail = <<>>
    /\ response = Response(200, NoData)
    /\ inflight = [w \in Workers |-> Idle]

CommentCreate ==
    /\ \E user \in {"uma", AnonymousUser}, post_slug \in DOMAIN CommentedPosts :
          \E data \in CommentPayloads :
              CommentListCreateView_post(user, post_slug, data)
    /\ UNCHANGED inflight

CommentNext == CommentCreate

CommentSpec == CommentInit /\ [][CommentNext]_vars

\* C30, as stated: every stored comment that has a parent belongs to the
\* post its parent belongs to.
C30_ReplyOnParentsPost ==
    \A k \in DOMAIN db["blog_comments"] :
        LET comment == db["blog_comments"][k]
        IN  comment.parent # NoParent
                => db["blog_comments"][comment.parent].post = comment.post

\* C30 witness: the POST was answered 201 and the reply it stored is on one
\* post while its parent is on another.
C30_ReplyAcrossPosts ==
    /\ request.view = "CommentListCreateView"
    /\ response.status = 201
    /\ response.body.parent # NoParent
    /\ db["blog_comments"][response.body.parent].post # response.body.post

====
